---- MODULE Spec2Model ----
(***************************************************************************)
(* PlanGenie: the webhook backend that answers mobile-plan queries.        *)
(*                                                                         *)
(* The model covers the query-understanding and plan-filtering pipeline:   *)
(* request validation (middleware/validation.js, errorHandler.js), the     *)
(* webhook handler of index.js, the text parsers of utils/textParser.js    *)
(* and the filters of services/planService.js.                             *)
(*                                                                         *)
(* JavaScript values are tagged records, so that a number, a string, null, *)
(* undefined and NaN stay distinct: Num(28), Str("28 days"), Null, Undef,  *)
(* NaN.  Free-text plan fields (data, benefits, ...) are plain strings,    *)
(* the empty string standing for a missing (falsy) field.  Texts are       *)
(* strings examined character by character (SubSeq), as the code's         *)
(* includes(), toLowerCase() and regular expressions do.                   *)
(***************************************************************************)
EXTENDS Integers, Sequences, FiniteSets, TLC

(***************************************************************************)
(* Bounds of the model.                                                    *)
(***************************************************************************)
\* Longest plan list handed to a filter function on its own.
MaxPlans == 4

(***************************************************************************)
(* JavaScript values.                                                      *)
(***************************************************************************)
Num(n) == [t |-> "num", n |-> n]
Str(s) == [t |-> "str", s |-> s]
Obj(amount, unit) == [t |-> "obj", amount |-> amount, unit |-> unit]
Null == [t |-> "null"]
Undef == [t |-> "undef"]
NaN == [t |-> "nan"]

IsNum(v) == v.t = "num"
IsStr(v) == v.t = "str"

\* Truthiness of a value, as used by `if (x)`, `!x`, `x || y`.
Truthy(v) ==
  CASE v.t = "num" -> v.n # 0
    [] v.t = "str" -> v.s # ""
    [] v.t = "obj" -> TRUE
    [] v.t = "frac" -> v.num # 0
    [] v.t = "inf" -> TRUE
    [] OTHER -> FALSE

(***************************************************************************)
(* Strings, character by character.                                        *)
(***************************************************************************)
\* The characters i .. j of s that exist: a position outside the string
\* holds no character.
substring(s, i, j) ==
  LET from == IF i < 1 THEN 1 ELSE i
      to == IF j > Len(s) THEN Len(s) ELSE j
  IN  IF from > to THEN "" ELSE SubSeq(s, from, to)

Ch(s, i) == substring(s, i, i)

\* The decimal digits and their values.
Digits ==
  ("0" :> 0) @@ ("1" :> 1) @@ ("2" :> 2) @@ ("3" :> 3) @@ ("4" :> 4)
    @@ ("5" :> 5) @@ ("6" :> 6) @@ ("7" :> 7) @@ ("8" :> 8) @@ ("9" :> 9)
IsDigit(c) == c \in DOMAIN Digits
DigitVal(c) == Digits[c]

\* The letters with a lower-case and with an upper-case form.
LowerCase ==
  [A |-> "a", B |-> "b", C |-> "c", D |-> "d", E |-> "e",
   F |-> "f", G |-> "g", H |-> "h", I |-> "i", J |-> "j", K |-> "k",
   L |-> "l", M |-> "m", N |-> "n", O |-> "o", P |-> "p", Q |-> "q",
   R |-> "r", S |-> "s", T |-> "t", U |-> "u", V |-> "v", W |-> "w",
   X |-> "x", Y |-> "y", Z |-> "z"]
UpperCase ==
  [a |-> "A", b |-> "B", c |-> "C", d |-> "D", e |-> "E",
   f |-> "F", g |-> "G", h |-> "H", i |-> "I", j |-> "J", k |-> "K",
   l |-> "L", m |-> "M", n |-> "N", o |-> "O", p |-> "P", q |-> "Q",
   r |-> "R", s |-> "S", t |-> "T", u |-> "U", v |-> "V", w |-> "W",
   x |-> "X", y |-> "Y", z |-> "Z"]

LowerChar(c) == IF c \in DOMAIN LowerCase THEN LowerCase[c] ELSE c

RECURSIVE toLowerCase(_)
toLowerCase(s) ==
  IF s = "" THEN "" ELSE LowerChar(Ch(s, 1)) \o toLowerCase(substring(s, 2, Len(s)))

UpperChar(c) == IF c \in DOMAIN UpperCase THEN UpperCase[c] ELSE c

RECURSIVE toUpperCase(_)
toUpperCase(s) ==
  IF s = "" THEN "" ELSE UpperChar(Ch(s, 1)) \o toUpperCase(substring(s, 2, Len(s)))

\* s.includes(t)
includes(s, t) ==
  \E i \in 0..(Len(s) - Len(t)) : substring(s, i + 1, i + Len(t)) = t

\* s.trim(): the texts of the model carry blanks only.
RECURSIVE trim(_)
trim(s) ==
  IF s = "" THEN ""
  ELSE IF Ch(s, 1) = " " THEN trim(substring(s, 2, Len(s)))
  ELSE IF Ch(s, Len(s)) = " " THEN trim(substring(s, 1, Len(s) - 1))
  ELSE s

\* End (exclusive) of the maximal digit run of s starting at position i.
RECURSIVE DigitRunEnd(_, _)
DigitRunEnd(s, i) ==
  IF i <= Len(s) /\ IsDigit(Ch(s, i)) THEN DigitRunEnd(s, i + 1) ELSE i

\* End (exclusive) of the blanks of s starting at position i: \s*
RECURSIVE BlankRunEnd(_, _)
BlankRunEnd(s, i) ==
  IF i <= Len(s) /\ Ch(s, i) = " " THEN BlankRunEnd(s, i + 1) ELSE i

\* Value of a string of decimal digits.
RECURSIVE DigitsValue(_, _)
DigitsValue(s, acc) ==
  IF s = "" THEN acc
  ELSE DigitsValue(substring(s, 2, Len(s)), 10 * acc + DigitVal(Ch(s, 1)))

\* parseInt(s): the leading digits of s, NaN when there are none.
parseInt(s) ==
  LET e == DigitRunEnd(s, 1)
  IN  IF e = 1 THEN NaN ELSE Num(DigitsValue(substring(s, 1, e - 1), 0))

\* s.match(/(\d+)/): the first run of digits (capture 1), "" when no match.
MatchDigits(s) ==
  IF \E i \in 1..Len(s) : IsDigit(Ch(s, i))
  THEN LET i == CHOOSE j \in 1..Len(s) :
                  IsDigit(Ch(s, j)) /\ \A k \in 1..(j - 1) : ~IsDigit(Ch(s, k))
       IN  substring(s, i, DigitRunEnd(s, i) - 1)
  ELSE ""

\* s.match(/(\d+)\s*days?/i) on a lower-cased s: capture 1 of the leftmost
\* match, "" when no match.  \d+ has to take a whole digit run, since what
\* follows it is a blank or the letter d.
DaysMatchAt(s, i) ==
  /\ IsDigit(Ch(s, i))
  /\ LET e == BlankRunEnd(s, DigitRunEnd(s, i)) IN substring(s, e, e + 2) = "day"
MatchDays(s) ==
  IF \E i \in 1..Len(s) : DaysMatchAt(s, i)
  THEN LET i == CHOOSE j \in 1..Len(s) :
                  DaysMatchAt(s, j) /\ \A k \in 1..(j - 1) : ~DaysMatchAt(s, k)
       IN  substring(s, i, DigitRunEnd(s, i) - 1)
  ELSE ""

\* s.replace(/[^0-9]/g, '')
RECURSIVE StripNonDigits(_)
StripNonDigits(s) ==
  IF s = "" THEN ""
  ELSE (IF IsDigit(Ch(s, 1)) THEN Ch(s, 1) ELSE "")
         \o StripNonDigits(substring(s, 2, Len(s)))

\* ToNumber, the coercion of the relational operators.  A string of digits
\* is its value, the empty string 0, any other string of the model NaN.
ToNumber(v) ==
  CASE v.t = "num" -> v
    [] v.t = "null" -> Num(0)
    [] v.t = "str" ->
         IF v.s = "" THEN Num(0)
         ELSE IF DigitRunEnd(v.s, 1) = Len(v.s) + 1 THEN Num(DigitsValue(v.s, 0))
         ELSE NaN
    [] OTHER -> NaN

\* a <= b
JsLe(a, b) ==
  LET x == ToNumber(a)
      y == ToNumber(b)
  IN  IsNum(x) /\ IsNum(y) /\ x.n <= y.n

Abs(x) == IF x < 0 THEN -x ELSE x

(***************************************************************************)
(* utils/textParser.js                                                     *)
(***************************************************************************)
\* Number of days of a digit capture times a unit, null without a capture.
TimesOrNull(m, k) == IF m = "" THEN Null ELSE Num(parseInt(m).n * k)

parseValidity(validity) ==
  IF IsNum(validity) THEN validity
  ELSE IF ~Truthy(validity) THEN Null
  ELSE LET str == toLowerCase(validity.s)
       IN  IF str = "base plan" \/ str = "plan validity" \/ str = "bill cycle"
             THEN Null
           ELSE IF includes(str, "month") THEN TimesOrNull(MatchDigits(str), 30)
           ELSE IF includes(str, "week") THEN TimesOrNull(MatchDigits(str), 7)
           ELSE IF includes(str, "year") THEN TimesOrNull(MatchDigits(str), 365)
           ELSE IF includes(str, "day") THEN TimesOrNull(MatchDays(str), 1)
           ELSE TimesOrNull(MatchDigits(str), 1)

\* The text a feature is searched in: the truthy ones of benefits,
\* additional_benefits, description and name joined by a blank, lower-cased.
RECURSIVE JoinTruthy(_)
JoinTruthy(parts) ==
  IF parts = <<>> THEN ""
  ELSE LET rest == JoinTruthy(Tail(parts))
       IN  IF Head(parts) = "" THEN rest
           ELSE IF rest = "" THEN Head(parts)
           ELSE Head(parts) \o " " \o rest

searchText(plan) ==
  toLowerCase(JoinTruthy(<<plan.benefits, plan.additional_benefits,
                           plan.description, plan.name>>))

hasFeature(plan, feature) ==
  IF feature = "" THEN FALSE
  ELSE includes(searchText(plan), toLowerCase(feature))

\* CONFIG.OPERATOR_CORRECTIONS, as key/value pairs.
OPERATOR_CORRECTIONS ==
  <<<<"geo", "jio">>, <<"artel", "airtel">>, <<"vodafone idea", "vi">>,
    <<"vodaphone", "vi">>, <<"idea", "vi">>>>

\* CONFIG.AVAILABLE_OPERATORS
AVAILABLE_OPERATORS == {"jio", "airtel", "vi"}

\* The month phrases mapped to calendar months of 30 days.
MONTH_MAPPINGS_30 ==
  <<<<"1 month", 30>>, <<"one month", 30>>, <<"a month", 30>>,
    <<"2 month", 60>>, <<"two month", 60>>, <<"2 months", 60>>,
    <<"two months", 60>>, <<"3 month", 90>>, <<"three month", 90>>,
    <<"3 months", 90>>, <<"three months", 90>>>>

\* CONFIG.MONTH_MAPPINGS, in the order of Object.entries.
MONTH_MAPPINGS ==
  <<<<"1 month", 28>>, <<"one month", 28>>, <<"a month", 28>>,
    <<"2 month", 56>>, <<"two month", 56>>, <<"2 months", 56>>,
    <<"two months", 56>>, <<"3 month", 84>>, <<"three month", 84>>,
    <<"3 months", 84>>, <<"three months", 84>>>>

\* The operator named inside a lower-cased text, null when there is none.
operatorInText(text) ==
  IF includes(text, "jio") \/ includes(text, "geo") THEN Str("jio")
  ELSE IF includes(text, "airtel") \/ includes(text, "artel") THEN Str("airtel")
  ELSE IF includes(text, "vi") \/ includes(text, "vodafone") \/ includes(text, "idea")
    THEN Str("vi")
  ELSE Null

correctOperatorName(input) ==
  IF ~Truthy(input) THEN Null
  ELSE LET lowerInput == toLowerCase(input.s)
       IN  IF \E k \in DOMAIN OPERATOR_CORRECTIONS : OPERATOR_CORRECTIONS[k][1] = lowerInput
           THEN Str(OPERATOR_CORRECTIONS[CHOOSE k \in DOMAIN OPERATOR_CORRECTIONS :
                                           OPERATOR_CORRECTIONS[k][1] = lowerInput][2])
           ELSE operatorInText(lowerInput)

extractOperatorFromQuery(queryText) == operatorInText(queryText)

extractDurationFromQuery(queryText) ==
  LET hits == {k \in DOMAIN MONTH_MAPPINGS : includes(queryText, MONTH_MAPPINGS[k][1])}
      months == IF hits = {} THEN Null
                ELSE Num(MONTH_MAPPINGS[CHOOSE k \in hits : \A h \in hits : k <= h][2])
      daysMatch == MatchDays(queryText)
  IN  IF Truthy(months) THEN months
      ELSE IF daysMatch # "" THEN parseInt(daysMatch)
      ELSE months

\* keyword \s+ (?:rs\.?|₹)? \s* (\d+) at position i of s: the position of
\* the digits, 0 when the pattern does not match there.
AmountAfter(s, j) ==
  LET b == BlankRunEnd(s, j)
      c == IF substring(s, b, b + 2) = "rs." THEN b + 3
           ELSE IF substring(s, b, b + 1) = "rs" THEN b + 2
           ELSE IF Ch(s, b) = "₹" THEN b + 1
           ELSE b
      d == BlankRunEnd(s, c)
  IN  IF b > j /\ IsDigit(Ch(s, d)) THEN d ELSE 0

\* The words of a budget phrase, each followed by \s+.
RECURSIVE WordsEnd(_, _, _)
WordsEnd(s, i, words) ==
  IF words = <<>> THEN i
  ELSE LET w == Head(words)
           e == i + Len(w)
       IN  IF substring(s, i, e - 1) # w THEN 0
           ELSE IF Len(words) = 1 THEN e
           ELSE IF BlankRunEnd(s, e) = e THEN 0
           ELSE WordsEnd(s, BlankRunEnd(s, e), Tail(words))

PhraseAmountAt(s, i, words) ==
  LET e == WordsEnd(s, i, words) IN IF e = 0 THEN 0 ELSE AmountAfter(s, e)

\* s.match(/<words>\s+(?:rs\.?|₹)?\s*(\d+)/i): capture 1 of the leftmost
\* match, "" when no match.
MatchPhraseAmount(s, words) ==
  IF \E i \in 1..Len(s) : PhraseAmountAt(s, i, words) # 0
  THEN LET i == CHOOSE j \in 1..Len(s) :
                  /\ PhraseAmountAt(s, j, words) # 0
                  /\ \A k \in 1..(j - 1) : PhraseAmountAt(s, k, words) = 0
           d == PhraseAmountAt(s, i, words)
       IN  substring(s, d, DigitRunEnd(s, d) - 1)
  ELSE ""

extractBudgetFromQuery(queryText) ==
  LET under == MatchPhraseAmount(queryText, <<"under">>)
      lessThan == MatchPhraseAmount(queryText, <<"less", "than">>)
      budgetOf == MatchPhraseAmount(queryText, <<"budget", "of">>)
  IN  IF under # "" THEN parseInt(under)
      ELSE IF lessThan # "" THEN parseInt(lessThan)
      ELSE IF budgetOf # "" THEN parseInt(budgetOf)
      ELSE Null

\* A decimal number read by parseFloat, as the fraction num / den.
Frac(num, den) == [t |-> "frac", num |-> num, den |-> den]
Infinity == [t |-> "inf"]

RECURSIVE Pow10(_)
Pow10(k) == IF k = 0 THEN 1 ELSE 10 * Pow10(k - 1)

\* End (exclusive) of (\d+(\.\d+)?) starting at the digit at position i.
DecimalEnd(s, i) ==
  LET e == DigitRunEnd(s, i)
  IN  IF Ch(s, e) = "." /\ IsDigit(Ch(s, e + 1)) THEN DigitRunEnd(s, e + 1) ELSE e

\* parseFloat of the decimal of s at positions i .. e-1.
DecimalValue(s, i, e) ==
  LET p == DigitRunEnd(s, i)
      whole == DigitsValue(substring(s, i, p - 1), 0)
      fraction == substring(s, p + 1, e - 1)
  IN  IF p = e THEN Frac(whole, 1)
      ELSE Frac(whole * Pow10(Len(fraction)) + DigitsValue(fraction, 0),
                Pow10(Len(fraction)))

\* (\d+(\.\d+)?)\s*GB at position i of a lower-cased s: the position behind
\* "gb", 0 when the pattern does not match there.
GbEndAt(s, i) ==
  IF ~IsDigit(Ch(s, i)) THEN 0
  ELSE LET e == BlankRunEnd(s, DecimalEnd(s, i))
       IN  IF substring(s, e, e + 1) = "gb" THEN e + 2 ELSE 0

\* ...\s*(?:per day|daily) behind it.
DailyAt(s, i) ==
  LET g == GbEndAt(s, i)
      b == BlankRunEnd(s, g)
  IN  g # 0 /\ (substring(s, b, b + 6) = "per day" \/ substring(s, b, b + 4) = "daily")

extractDailyDataFromQuery(queryText) ==
  IF \E i \in 1..Len(queryText) : DailyAt(queryText, i)
  THEN LET i == CHOOSE j \in 1..Len(queryText) :
                  DailyAt(queryText, j) /\ \A k \in 1..(j - 1) : ~DailyAt(queryText, k)
       IN  DecimalValue(queryText, i, DecimalEnd(queryText, i))
  ELSE Null

\* (\d+)\s*MB at position i of a lower-cased s.
MbAt(s, i) ==
  /\ IsDigit(Ch(s, i))
  /\ LET e == BlankRunEnd(s, DigitRunEnd(s, i)) IN substring(s, e, e + 1) = "mb"

parseDataAllowance(dataString) ==
  IF dataString = "" THEN Null
  ELSE LET s == toLowerCase(dataString)
       IN  IF includes(s, "unlimited") THEN Infinity
           ELSE IF \E i \in 1..Len(s) : GbEndAt(s, i) # 0
             THEN LET i == CHOOSE j \in 1..Len(s) :
                             GbEndAt(s, j) # 0 /\ \A k \in 1..(j - 1) : GbEndAt(s, k) = 0
                  IN  DecimalValue(s, i, DecimalEnd(s, i))
           ELSE IF \E i \in 1..Len(s) : MbAt(s, i)
             THEN LET i == CHOOSE j \in 1..Len(s) :
                             MbAt(s, j) /\ \A k \in 1..(j - 1) : ~MbAt(s, k)
                  IN  Frac(DigitsValue(substring(s, i, DigitRunEnd(s, i) - 1), 0), 1024)
           ELSE Null

\* A request's parameters: operator, plan_type, budget and duration, each a
\* JavaScript value, Undef when the key is absent.
\* The duration with the parameter consulted before the text.
processDurationParameterFirst(params, queryText) ==
  IF IsNum(params.duration) /\ Truthy(params.duration) THEN params.duration
  ELSE IF IsStr(params.duration) /\ Truthy(params.duration)
    THEN parseValidity(params.duration)
  ELSE extractDurationFromQuery(queryText)

processDurationParameter(params, queryText) ==
  LET fromText == extractDurationFromQuery(queryText)
      duration == params.duration
  IN  IF ~Truthy(fromText) /\ Truthy(duration)
      THEN IF duration.t = "obj" /\ Truthy(duration.amount)
             THEN LET amount == duration.amount
                      unit == IF IsStr(duration.unit) THEN toLowerCase(duration.unit.s) ELSE ""
                  IN  IF includes(unit, "month")
                        THEN IF amount = Num(1) THEN Num(28)
                             ELSE IF amount = Num(2) THEN Num(56)
                             ELSE IF amount = Num(3) THEN Num(84)
                             ELSE Num(amount.n * 30)
                      ELSE IF includes(unit, "week") THEN Num(amount.n * 7)
                      ELSE IF includes(unit, "year") THEN Num(amount.n * 365)
                      ELSE amount
           ELSE IF IsNum(duration) THEN duration
           ELSE IF IsStr(duration) THEN parseValidity(duration)
           ELSE fromText
      ELSE fromText

processBudgetParameter(params, queryText) ==
  LET b == params.budget
      fromParams ==
        IF ~Truthy(b) THEN Null
        ELSE IF IsNum(b) THEN b
        ELSE IF b.t = "obj" /\ Truthy(b.amount) THEN b.amount
        ELSE IF IsStr(b) /\ MatchDigits(b.s) # "" THEN parseInt(MatchDigits(b.s))
        ELSE Null
  IN  IF ~Truthy(fromParams) THEN extractBudgetFromQuery(queryText) ELSE fromParams

(***************************************************************************)
(* services/planService.js: the filters.                                   *)
(***************************************************************************)
\* The planPrice of filterPlansByConstraints.
planPrice(plan) ==
  IF IsStr(plan.price) THEN parseInt(StripNonDigits(plan.price.s)) ELSE plan.price

matchesDuration(plan, targetDuration) ==
  ~Truthy(targetDuration) \/ parseValidity(plan.validity) = targetDuration

\* The budget test on the price as the catalog gives it, not stripped.
matchesBudgetRaw(plan, budget) ==
  ~Truthy(budget) \/ JsLe(plan.price, budget)

matchesBudget(plan, budget) ==
  ~Truthy(budget) \/ JsLe(planPrice(plan), budget)

filterPlansByConstraints(plans, targetDuration, budget) ==
  SelectSeq(plans, LAMBDA plan :
    matchesDuration(plan, targetDuration) /\ matchesBudget(plan, budget))

\* The filter with some() in the place of every().
filterPlansByAnyFeature(plans, requestedFeatures) ==
  SelectSeq(plans, LAMBDA plan :
    \E k \in 1..Len(requestedFeatures) : hasFeature(plan, requestedFeatures[k]))

filterPlansByFeatures(plans, requestedFeatures) ==
  SelectSeq(plans, LAMBDA plan :
    \A k \in 1..Len(requestedFeatures) : hasFeature(plan, requestedFeatures[k]))

\* Array.prototype.sort with the distance comparator: a stable sort, done
\* here by inserting each item behind the items that are not farther.
distance(item, targetDuration) == Abs(item.validDays.n - targetDuration.n)

RECURSIVE InsertByDistance(_, _, _)
InsertByDistance(sorted, item, targetDuration) ==
  IF sorted = <<>> THEN <<item>>
  ELSE IF distance(Head(sorted), targetDuration) <= distance(item, targetDuration)
       THEN <<Head(sorted)>> \o InsertByDistance(Tail(sorted), item, targetDuration)
       ELSE <<item>> \o sorted

RECURSIVE sortByDistance(_, _, _)
sortByDistance(items, sorted, targetDuration) ==
  IF items = <<>> THEN sorted
  ELSE sortByDistance(Tail(items),
                      InsertByDistance(sorted, Head(items), targetDuration),
                      targetDuration)

\* items.slice(0): the whole array.
sliceAll(items, n) == items

\* items.slice(0, n)
slice0(items, n) == SubSeq(items, 1, IF n < Len(items) THEN n ELSE Len(items))

\* The default value of the parameter maxResults.
DefaultMaxResults == 3

findSimilarPlans(plans, targetDuration, budget, maxResults) ==
  LET mapped == [i \in 1..Len(plans) |->
                   [plan |-> plans[i], validDays |-> parseValidity(plans[i].validity)]]
      valid == SelectSeq(mapped, LAMBDA item : Truthy(item.validDays))
      affordable == SelectSeq(valid, LAMBDA item :
                      ~Truthy(budget) \/ JsLe(item.plan.price, budget))
      sorted == sortByDistance(affordable, <<>>, targetDuration)
      n == IF maxResults = Undef THEN DefaultMaxResults ELSE maxResults.n
      top == slice0(sorted, n)
  IN  [i \in 1..Len(top) |-> top[i].plan]

\* The split that reports every requested feature as available.
allFeaturesAvailable(plans, requestedFeatures) ==
  [availableFeatures |-> requestedFeatures, unavailableFeatures |-> <<>>]

checkFeatureAvailability(plans, requestedFeatures) ==
  LET has(feature) == \E i \in 1..Len(plans) : hasFeature(plans[i], feature)
  IN  [availableFeatures |->
         SelectSeq(requestedFeatures, LAMBDA feature : has(feature)),
       unavailableFeatures |->
         SelectSeq(requestedFeatures, LAMBDA feature : ~has(feature))]


filterVoiceOnlyPlans(plans) ==
  SelectSeq(plans, LAMBDA plan :
    LET hasZeroData == \/ plan.data = "0GB"
                       \/ plan.data = "No data"
                       \/ includes(toLowerCase(plan.data), "0gb")
        benefits == toLowerCase(plan.benefits)
        onlyVoiceAndSMS == /\ plan.benefits # ""
                           /\ ~includes(benefits, "data")
                           /\ ~includes(benefits, "gb")
                           /\ (includes(benefits, "voice") \/ includes(benefits, "calls"))
    IN  hasZeroData /\ onlyVoiceAndSMS)

\* The total amount, not the daily rate, against the minimum.
totalDataAtLeast(dataAmount, validityDays, minDailyData) ==
  \/ dataAmount = Infinity
  \/ dataAmount.num * minDailyData.den >= minDailyData.num * dataAmount.den

\* dataAmount / validityDays >= minDailyData, on fractions.
dailyDataAtLeast(dataAmount, validityDays, minDailyData) ==
  \/ dataAmount = Infinity
  \/ dataAmount.num * minDailyData.den
       >= minDailyData.num * dataAmount.den * validityDays.n

filterByDailyData(plans, minDailyData) ==
  SelectSeq(plans, LAMBDA plan :
    LET dataAmount == parseDataAllowance(plan.data)
        parsed == parseValidity(plan.validity)
        validityDays == IF Truthy(parsed) THEN parsed ELSE Num(1)
    IN  Truthy(dataAmount) /\ dailyDataAtLeast(dataAmount, validityDays, minDailyData))

filterInternationalPlans(plans) ==
  SelectSeq(plans, LAMBDA plan :
    LET planText == searchText(plan)
    IN  \/ includes(planText, "iro")
        \/ includes(planText, "international roaming")
        \/ includes(planText, "global roaming")
        \/ includes(planText, "international pack"))

(***************************************************************************)
(* services/planService.js: the catalog and its normalization.             *)
(*                                                                         *)
(* A node of the catalog JSON is an array of plans, an object (its values  *)
(* in key order) or a scalar.                                              *)
(***************************************************************************)
ArrayNode(items) == [t |-> "array", items |-> items]
ObjectNode(values) == [t |-> "object", values |-> values]
Scalar == [t |-> "scalar"]

\* Object.values(node): the values of an object, the elements of an array
\* (plan objects, whose own values are scalars).
ObjectValues(node) ==
  IF node.t = "object" THEN node.values
  ELSE IF node.t = "array"
    THEN [i \in 1..Len(node.items) |-> ObjectNode(<<Scalar>>)]
  ELSE <<>>

RECURSIVE Concat(_)
Concat(lists) == IF lists = <<>> THEN <<>> ELSE Head(lists) \o Concat(Tail(lists))

\* The arrays found among the values of a node, concatenated.
arraysOf(values) ==
  Concat([i \in 1..Len(values) |->
            IF values[i].t = "array" THEN values[i].items ELSE <<>>])

\* The prepaid plans of the arrays that are categories themselves only.
flattenPrepaidPlansDirect(prepaidData) == arraysOf(ObjectValues(prepaidData))

flattenPrepaidPlans(prepaidData) ==
  LET categories == ObjectValues(prepaidData)
  IN  Concat([i \in 1..Len(categories) |->
                IF categories[i].t = "array" THEN categories[i].items
                ELSE IF categories[i].t = "object"
                  THEN arraysOf(ObjectValues(categories[i]))
                ELSE <<>>])

flattenPostpaidPlans(postpaidData) ==
  IF postpaidData.t = "array" THEN postpaidData.items
  ELSE LET categories == ObjectValues(postpaidData)
           third(sub) == arraysOf(ObjectValues(sub))
           second(category) ==
             LET subs == ObjectValues(category)
             IN  Concat([j \in 1..Len(subs) |->
                           IF subs[j].t = "array" THEN subs[j].items
                           ELSE IF subs[j].t = "object" THEN third(subs[j])
                           ELSE <<>>])
       IN  Concat([i \in 1..Len(categories) |->
                     IF categories[i].t = "array" THEN categories[i].items
                     ELSE IF categories[i].t = "object" THEN second(categories[i])
                     ELSE <<>>])

\* { ...p, provider: operator }
withProvider(p, operator) ==
  [f \in DOMAIN p \cup {"provider"} |-> IF f = "provider" THEN operator ELSE p[f]]

stamp(plans, operator) == [i \in 1..Len(plans) |-> withProvider(plans[i], operator)]

\* A provider entry of data.telecom_providers: its key and its plans by
\* plan type, Undef for a plan type the provider does not have.
Provider(key, prepaid, postpaid) ==
  [key |-> key, prepaid |-> prepaid, postpaid |-> postpaid]

plansOfType(provider, planType) ==
  IF planType = "prepaid" THEN provider.prepaid
  ELSE IF planType = "postpaid" THEN provider.postpaid
  ELSE Undef

\* The flattened plans of one provider for a plan type.
operatorPlans(provider, planType) ==
  LET node == plansOfType(provider, planType)
  IN  IF planType = "postpaid"
      THEN IF node.t = "array" THEN node.items
           ELSE IF node.t = "object" THEN flattenPostpaidPlans(node)
           ELSE <<>>
      ELSE flattenPrepaidPlans(node)

PlanNotFoundError(message) ==
  [name |-> "PlanNotFoundError", statusCode |-> 404, message |-> message]
ValidationError(message) ==
  [name |-> "ValidationError", statusCode |-> 400, message |-> message]
\* A failed fetch raised as a PlanNotFoundError.
ExternalAPIErrorAsNotFound(message) ==
  [name |-> "PlanNotFoundError", statusCode |-> 404, message |-> message]
ExternalAPIError(message) ==
  [name |-> "ExternalAPIError", statusCode |-> 503, message |-> message]

Returned(value) == [ok |-> TRUE, value |-> value]
Thrown(error) == [ok |-> FALSE, error |-> error]

\* The catalog JSON: data.telecom_providers, the providers in key order.
Data(providers) == [t |-> "obj", telecom_providers |-> providers]

\* getPlansForOperator on the catalog that getPlansData returned.
getPlansForOperator(data, operator, planType) ==
  LET all == data.telecom_providers
      forOperator == IF Truthy(operator) THEN " for " \o toUpperCase(operator.s) ELSE ""
      providers == {k \in DOMAIN all : Truthy(operator) /\ all[k].key = operator.s}
      provider == all[CHOOSE k \in providers : TRUE]
      found ==
        IF Truthy(operator)
        THEN stamp(operatorPlans(provider, planType), operator.s)
        ELSE Concat([k \in DOMAIN all |->
                       IF plansOfType(all[k], planType) # Undef
                       THEN stamp(operatorPlans(all[k], planType), all[k].key)
                       ELSE <<>>])
  IN  IF Truthy(operator) /\ providers = {}
        THEN Thrown(PlanNotFoundError("No data available for operator: "
                                        \o toUpperCase(operator.s)))
      ELSE IF Truthy(operator) /\ plansOfType(provider, planType) = Undef
        THEN Thrown(PlanNotFoundError("No " \o planType \o " plans available"
                                        \o forOperator))
      ELSE IF found = <<>>
        THEN Thrown(PlanNotFoundError("No " \o planType \o " plans found" \o forOperator))
      ELSE Returned(found)

(***************************************************************************)
(* index.js: the text of a reply.                                          *)
(***************************************************************************)
\* CONFIG.MAX_PLANS_TO_SHOW
MAX_PLANS_TO_SHOW == 8

\* CONFIG.CONVERSATIONAL_RESPONSES, in the order of Object.entries.
CONVERSATIONAL_RESPONSES ==
  <<[trigger |-> "hi",
     responses |-> {"Hello! How can I help you today?",
                    "Hi there! Looking for a mobile plan?",
                    "Hello! Need help finding a plan?"}],
    [trigger |-> "hello",
     responses |-> {"Hi! How can I assist you?",
                    "Hello there! Need help with mobile plans?",
                    "Hello! Ready to find your perfect plan?"}],
    [trigger |-> "hey",
     responses |-> {"Hey! How can I help?",
                    "Hi there! Looking for a mobile plan?",
                    "Hey! Ready to find your perfect plan?"}],
    [trigger |-> "how are you",
     responses |-> {"I'm doing great, thanks for asking! How can I help you today?",
                    "I'm well, thanks! Ready to find you the perfect mobile plan?"}],
    [trigger |-> "thanks",
     responses |-> {"You're welcome! Let me know if you need anything else.",
                    "Happy to help! Need anything else?",
                    "Glad I could help! Feel free to ask about any other plans."}],
    [trigger |-> "thank you",
     responses |-> {"You're welcome! Let me know if you need anything else.",
                    "Happy to help! Need anything else?",
                    "My pleasure! Feel free to ask about other plans."}],
    [trigger |-> "bye",
     responses |-> {"Goodbye! Have a great day!",
                    "Take care! Come back if you need more help.",
                    "Bye! Feel free to return if you need assistance."}]>>

\* String(n) of a natural number.
RECURSIVE natToString(_)
natToString(n) ==
  LET digit(k) == CHOOSE c \in DOMAIN Digits : Digits[c] = k
  IN  IF n < 10 THEN digit(n) ELSE natToString(n \div 10) \o digit(n % 10)

\* `${v}` of a template literal.
toString(v) ==
  CASE v.t = "num" -> natToString(v.n)
    [] v.t = "str" -> v.s
    [] v.t = "null" -> "null"
    [] v.t = "nan" -> "NaN"
    [] OTHER -> "undefined"

\* parts.join(sep)
RECURSIVE join(_, _)
join(parts, sep) ==
  IF parts = <<>> THEN ""
  ELSE IF Len(parts) = 1 THEN Head(parts)
  ELSE Head(parts) \o sep \o join(Tail(parts), sep)

\* One line of a plan list.
planLine(plan, operator, planType) ==
  LET validity ==
        IF Truthy(plan.validity)
        THEN IF plan.validity = Str("base plan") THEN "with base plan"
             ELSE IF plan.validity = Str("bill cycle") \/ plan.validity = Str("monthly")
               THEN "monthly bill cycle"
             ELSE IF IsNum(plan.validity) THEN natToString(plan.validity.n) \o " days"
             ELSE plan.validity.s
        ELSE IF planType = "postpaid" THEN "monthly bill cycle"
        ELSE ""
      validityText == IF validity # "" THEN " (" \o validity \o ")" ELSE ""
      providerText == IF ~Truthy(operator) /\ plan.provider # ""
                      THEN "[" \o toUpperCase(plan.provider) \o "] " ELSE ""
      benefits == join(SelectSeq(<<plan.benefits, plan.additional_benefits>>,
                                 LAMBDA b : b # ""), ", ")
  IN  "- " \o providerText \o "₹" \o toString(plan.price) \o ": " \o plan.data
        \o validityText \o (IF benefits # "" THEN " " \o benefits ELSE "")

planLines(plans, operator, planType) ==
  join([i \in 1..Len(plans) |-> planLine(plans[i], operator, planType)], "\n")

\* Math.min(...plans.map(p => p.price))
minPrice(plans) ==
  LET prices == {ToNumber(plans[i].price) : i \in 1..Len(plans)}
  IN  IF \E x \in prices : ~IsNum(x) THEN NaN
      ELSE CHOOSE x \in prices : \A y \in prices : x.n <= y.n

(***************************************************************************)
(* Plan records.  A raw catalog entry has no provider; getPlansForOperator *)
(* stamps it on a copy of the entry.                                       *)
(***************************************************************************)
Plan(name, price, data, validity, benefits, additional_benefits) ==
  [name |-> name, price |-> price, data |-> data, validity |-> validity,
   benefits |-> benefits, additional_benefits |-> additional_benefits,
   description |-> ""]

\* Plans in the shapes of the catalog and of the unit tests: prices as
\* digit strings, strings with a currency symbol and numbers; validities as
\* day strings, month strings, numbers and bill-cycle texts.
Plan149 == Plan("149 Plan", Str("149"), "2GB", Str("28 days"),
                "Unlimited voice calls, 300 SMS", "Netflix Mobile")
Plan399 == Plan("399 Plan", Str("₹399"), "6GB", Num(56),
                "Unlimited voice calls, 1000 SMS", "Netflix Mobile, Amazon Prime")
Plan555 == Plan("555 Plan", Num(555), "Unlimited", Str("84 days"),
                "Unlimited voice calls, 100 SMS/day", "Disney+ Hotstar Mobile")
Plan179 == Plan("179 Plan", Str("179"), "1.5GB", Str("1 month"),
                "Unlimited voice calls, 300 SMS", "Amazon Prime")
PlanPostpaid == Plan("Postpaid 299", Num(299), "75GB", Str("bill cycle"),
                "Unlimited voice calls", "Netflix, Amazon Prime, Disney+ Hotstar")
Plan99 == Plan("99 Voice Plan", Str("99"), "0GB", Str("28 Days"),
                "Unlimited voice calls, 300 SMS", "")

PlanNetflix84 == Plan("555 Plan", Num(555), "Unlimited", Str("84 days"),
                      "Unlimited voice calls, 100 SMS/day", "Netflix Mobile")
Plan199 == Plan("199 Plan", Str("199"), "1.5GB", Str("28 days"),
                "Unlimited voice calls, 300 SMS", "Vi Movies & TV")
Plan239 == Plan("239 Plan", Num(239), "2GB", Num(28),
                "Unlimited voice calls, 100 SMS/day", "")
Plan699 == Plan("699 International Plan", Str("699"), "4GB", Str("28 days"),
                "Unlimited voice calls, 100 SMS/day",
                "International roaming enabled, Netflix")

Plan299 == Plan("299 Plan", Num(299), "2GB", Str("28 days"),
                "Unlimited voice calls, 100 SMS/day", "")
Plan449 == Plan("449 Plan", Str("449"), "3GB", Str("56 days"),
                "Unlimited voice calls, 100 SMS/day", "")

FnPlanPool == {Plan149, Plan399, Plan555, Plan179, PlanPostpaid, Plan99}

\* The plan lists handed to a filter: up to MaxPlans distinct plans, in
\* every order.
FnPlanLists ==
  {l \in UNION {[1..n -> FnPlanPool] : n \in 0..MaxPlans} :
     \A i, j \in DOMAIN l : i # j => l[i] # l[j]}

FnDurations == {Null, Num(28), Num(56)}
FnBudgets == {Null, Num(400), Num(600)}
FnMaxResults == {Undef, Num(1), Num(2)}
FnFeatureLists == {<<"netflix">>, <<"netflix", "amazon prime">>,
                   <<"Hotstar">>, <<"youtube premium", "netflix">>}

(***************************************************************************)
(* Requests and catalogs of the model.                                     *)
(***************************************************************************)
Params(operator, plan_type, budget, duration) ==
  [operator |-> operator, plan_type |-> plan_type, budget |-> budget,
   duration |-> duration]

NoParams == Params(Undef, Undef, Undef, Undef)

QueryTexts ==
  {"hi", "Hey, how are you", "Show me Jio prepaid plans under 500",
   "2 months validity", "voice only plans", "plans with netflix and amazon prime",
   "international roaming plans", "plans with 28 days validity", "bsnl plans",
   "airtel postpaid plans", "roaming plans", "cheapest jio plans",
   "plans with highest data", "best value plans"}

ParamSets ==
  {NoParams,
   Params(Str("jio"), Undef, Undef, Undef),
   Params(Str("bsnl"), Undef, Undef, Undef),
   Params(Str("geo"), Str("prepaid"), Num(500), Undef),
   Params(Undef, Undef, Undef, Str("28 days")),
   Params(Undef, Undef, Undef, Obj(Num(2), Str("month"))),
   Params(Undef, Undef, Str("400"), Num(56)),
   Params(Undef, Undef, Num(50), Undef),
   Params(Undef, Undef, Num(400), Num(84)),
   Params(Undef, Undef, Num(50), Num(28)),
   Params(Undef, Undef, Obj(Num(300), Str("INR")), Undef)}

\* A request body: its queryResult, Undef when the body has none.
Body(queryText, parameters) ==
  [queryResult |-> [t |-> "obj", queryText |-> queryText, parameters |-> parameters]]

Bodies ==
  {Body(Str(q), p) : q \in QueryTexts, p \in ParamSets}
    \cup {[queryResult |-> Undef]}

\* The catalog of the unit tests: three operators, nested prepaid
\* categories, postpaid arrays.
CatalogMock ==
  <<Provider("jio",
             ObjectNode(<<ArrayNode(<<Plan149, Plan399, Plan555>>),
                          ArrayNode(<<Plan99>>)>>),
             ArrayNode(<<PlanPostpaid>>)),
    Provider("airtel",
             ObjectNode(<<ArrayNode(<<Plan179, Plan699>>)>>),
             Undef),
    Provider("vi",
             ObjectNode(<<ObjectNode(<<ArrayNode(<<Plan199>>)>>)>>),
             ObjectNode(<<ObjectNode(<<ObjectNode(<<ArrayNode(<<PlanPostpaid>>)>>)>>)>>))>>

\* One operator with a single plan: 84 days, Netflix only.
CatalogSingle ==
  <<Provider("jio", ObjectNode(<<ArrayNode(<<PlanNetflix84>>)>>), Undef)>>

\* Three 28-day plans in front of an 84-day plan, no 56-day plan.
CatalogMonthly ==
  <<Provider("jio",
             ObjectNode(<<ArrayNode(<<Plan149, Plan199, Plan239>>),
                          ArrayNode(<<PlanNetflix84>>)>>),
             ObjectNode(<<>>))>>

\* One operator with ten prepaid plans in three categories, eight of them
\* priced at 500 or less.
CatalogLarge ==
  <<Provider("jio",
             ObjectNode(<<ArrayNode(<<Plan149, Plan399, Plan555, Plan99>>),
                          ArrayNode(<<Plan179, Plan199, Plan239, Plan699>>),
                          ArrayNode(<<Plan299, Plan449>>)>>),
             Undef)>>

\* A plan with an international pack and a plan with international calls.
PlanRoamPack == Plan("575 Plan", Num(575), "5GB", Str("28 days"),
                     "Unlimited voice calls", "International pack for 30 countries")
PlanIsdCalls == Plan("501 Plan", Num(501), "1GB", Str("28 days"),
                     "Unlimited voice calls", "International calls at 5 per minute")

CatalogRoaming ==
  <<Provider("jio",
             ObjectNode(<<ArrayNode(<<PlanIsdCalls, PlanRoamPack, Plan149>>)>>),
             Undef)>>

Catalogs ==
  {Data(CatalogMock), Data(CatalogSingle), Data(CatalogMonthly), Data(CatalogLarge),
   Data(CatalogRoaming)}

(***************************************************************************)
(* The state.                                                              *)
(***************************************************************************)
VARIABLES
  source,               \* the catalog JSON served at CONFIG.JSON_URL
  cachedPlans,          \* planService.js: the cached catalog, Null at start
  lastFetchTime,        \* planService.js: the time kept with the cache, 0 at start
  clock,                \* Date.now(), in ms from an origin a second before start
  calls,                \* the calls of getPlansData in flight, by caller
  pc,                   \* the position of the request in the middleware chain
  body,                 \* req.body
  ctx,                  \* the signals the handler extracted
  plans,                \* the handler's plans
  filtered,             \* the handler's filtered
  availableFeatures,    \* the handler's availableFeatures
  unavailableFeatures,  \* the handler's unavailableFeatures
  similarPlans,         \* the handler's similarPlans
  err,                  \* the error handed to next(err)
  res,                  \* the response sent, NoRes before
  stages,               \* the steps of the handler run for this request
  fnPlans,              \* the plan list a filter function is applied to
  fnText,               \* the text a text function is applied to
  fnCall                \* the last application: function, arguments, result

requestVars == <<pc, body, ctx, plans, filtered, availableFeatures,
                 unavailableFeatures, similarPlans, err, res, stages>>
fnVars == <<fnPlans, fnText, fnCall>>
timeVars == <<lastFetchTime, clock, calls>>
vars == <<source, cachedPlans, timeVars, requestVars, fnVars>>

NoRes == [status |-> 0]
NoErr == [name |-> "none"]
NoBody == [queryResult |-> Undef]
NoCall == [fn |-> "none"]

\* The number of callers of getPlansData that can be in flight together.
MaxCalls == 2

Callers == 1..MaxCalls

\* No call of getPlansData is in flight.
IdleCall == [pc |-> "idle", now |-> 0, retryCount |-> 0, result |-> Null]

\* The time at which the server starts.
StartTime == 1000

\* The module as loaded: lastFetchTime = 0 and no call made.
ColdCache ==
  /\ cachedPlans = Null
  /\ lastFetchTime = 0
  /\ clock = StartTime
  /\ calls = [c \in Callers |-> IdleCall]

\* The handler's variables before the signals are extracted.
NoCtx ==
  [queryText |-> "", params |-> NoParams, sortBy |-> Null, minDailyData |-> Null,
   targetDuration |-> Null, operator |-> Undef, operatorCorrectionMessage |-> "",
   missingOperatorMessage |-> "", planType |-> "", requestedFeatures |-> <<>>,
   isVoiceOnly |-> FALSE, budget |-> Null]

IdleRequest ==
  /\ pc = "idle"
  /\ body = NoBody
  /\ ctx = NoCtx
  /\ plans = <<>>
  /\ filtered = <<>>
  /\ availableFeatures = <<>>
  /\ unavailableFeatures = <<>>
  /\ similarPlans = <<>>
  /\ err = NoErr
  /\ res = NoRes
  /\ stages = <<>>

Init ==
  /\ source \in Catalogs
  /\ ColdCache
  /\ IdleRequest
  /\ fnPlans = <<>>
  /\ fnText = Null
  /\ fnCall = NoCall

(***************************************************************************)
(* middleware: validateWebhookRequest, validateRequest(webhookSchema),     *)
(* sanitizeInput, errorHandler.                                            *)
(***************************************************************************)
ReceiveRequest ==
  /\ pc = "idle"
  /\ \E b \in Bodies : body' = b
  /\ pc' = "validateWebhookRequest"
  /\ UNCHANGED <<source, cachedPlans, timeVars, ctx, plans, filtered, availableFeatures,
                 unavailableFeatures, similarPlans, err, res, stages, fnVars>>

\* errorHandler.js does not import ValidationError: its throw raises a
\* ReferenceError, which the catch hands to next(error).
validateWebhookRequest ==
  /\ pc = "validateWebhookRequest"
  /\ IF ~Truthy(body.queryResult)
     THEN /\ err' = [name |-> "ReferenceError", statusCode |-> 500,
                     message |-> "ValidationError is not defined"]
          /\ pc' = "errorHandler"
          /\ UNCHANGED body
     ELSE /\ body' = [body EXCEPT
                 !.queryResult.queryText =
                   IF @ = Undef THEN Str("") ELSE @,
                 !.queryResult.parameters =
                   IF @ = Undef THEN NoParams ELSE @]
          /\ pc' = "validateRequest"
          /\ UNCHANGED err
  /\ UNCHANGED <<source, cachedPlans, timeVars, ctx, plans, filtered, availableFeatures,
                 unavailableFeatures, similarPlans, res, stages, fnVars>>

\* webhookSchema: the values each key of the request may have.
SchemaOperators ==
  {"jio", "airtel", "vi", "geo", "artel", "vodafone", "idea", "vodafone idea", ""}
SchemaPlanTypes == {"prepaid", "postpaid", ""}
SchemaMaxQueryText == 500
SchemaMaxDigits == 10
SchemaMaxBudget == 999999
SchemaMaxDuration == 9999

\* Joi.alternatives().try(Joi.string().pattern(/^\d+$/).max(10),
\*                        Joi.number().integer().min(1).max(max)).optional()
schemaAmount(v, max) ==
  \/ v = Undef
  \/ /\ IsStr(v)
     /\ v.s # ""
     /\ DigitRunEnd(v.s, 1) = Len(v.s) + 1
     /\ Len(v.s) <= SchemaMaxDigits
  \/ IsNum(v) /\ v.n >= 1 /\ v.n <= max

\* The messages of the keys that fail webhookSchema, in schema order (the
\* wording is Joi's, shortened).
schemaErrors(queryResult) ==
  LET q == queryResult.queryText
      p == queryResult.parameters
  IN  SelectSeq(
        <<IF IsStr(q) /\ trim(q.s) # "" /\ Len(trim(q.s)) <= SchemaMaxQueryText
            THEN "" ELSE "Query text cannot be empty",
          IF p.operator = Undef \/ (IsStr(p.operator) /\ p.operator.s \in SchemaOperators)
            THEN "" ELSE "queryResult.parameters.operator must be one of the operators",
          IF p.plan_type = Undef \/ (IsStr(p.plan_type) /\ p.plan_type.s \in SchemaPlanTypes)
            THEN "" ELSE "queryResult.parameters.plan_type must be one of the plan types",
          IF schemaAmount(p.budget, SchemaMaxBudget)
            THEN "" ELSE "queryResult.parameters.budget does not match any of the allowed types",
          IF schemaAmount(p.duration, SchemaMaxDuration)
            THEN "" ELSE "queryResult.parameters.duration does not match any of the allowed types">>,
        LAMBDA m : m # "")

validateRequest ==
  /\ pc = "validateRequest"
  /\ LET errors == schemaErrors(body.queryResult)
     IN  IF errors # <<>>
         THEN /\ err' = ValidationError("Validation failed: " \o join(errors, ", "))
              /\ pc' = "errorHandler"
              /\ UNCHANGED body
         ELSE /\ body' = [body EXCEPT !.queryResult.queryText = Str(trim(@.s))]
              /\ pc' = "sanitizeInput"
              /\ UNCHANGED err
  /\ UNCHANGED <<source, cachedPlans, timeVars, ctx, plans, filtered, availableFeatures,
                 unavailableFeatures, similarPlans, res, stages, fnVars>>

\* s.replace(/[<>]/g, '').replace(/[{}]/g, '')...: the characters removed
\* (the backtick, also removed, cannot be written in a string here).
SanitizedChars == {"<", ">", "{", "}", "[", "]"}

RECURSIVE removeChars(_, _)
removeChars(s, chars) ==
  IF s = "" THEN ""
  ELSE (IF Ch(s, 1) \in chars THEN "" ELSE Ch(s, 1))
         \o removeChars(substring(s, 2, Len(s)), chars)

sanitizeInput ==
  /\ pc = "sanitizeInput"
  /\ body' = [body EXCEPT !.queryResult.queryText =
                IF Truthy(@)
                THEN Str(trim(removeChars(@.s, SanitizedChars)))
                ELSE @]
  /\ pc' = "webhook"
  /\ UNCHANGED <<source, cachedPlans, timeVars, ctx, plans, filtered, availableFeatures,
                 unavailableFeatures, similarPlans, err, res, stages, fnVars>>

\* The names of the TelecomAPIError classes.
TelecomAPIErrors == {"PlanNotFoundError", "ValidationError", "ExternalAPIError"}

errorHandler ==
  /\ pc = "errorHandler"
  /\ res' = IF err.name \in TelecomAPIErrors
            THEN [status |-> err.statusCode, fulfillmentText |-> err.message]
            ELSE [status |-> 500,
                  fulfillmentText |-> "Sorry, we encountered an error. Please try again later."]
  /\ pc' = "done"
  /\ UNCHANGED <<source, cachedPlans, timeVars, body, ctx, plans, filtered, availableFeatures,
                 unavailableFeatures, similarPlans, err, stages, fnVars>>

(***************************************************************************)
(* index.js: the webhook handler.                                          *)
(***************************************************************************)
\* The last trigger of the table found in the query text, 0 when there is
\* none.
lastTrigger(normalizedQuery) ==
  LET hits == {k \in DOMAIN CONVERSATIONAL_RESPONSES :
                 includes(normalizedQuery, CONVERSATIONAL_RESPONSES[k].trigger)}
  IN  IF hits = {} THEN 0 ELSE CHOOSE k \in hits : \A h \in hits : k >= h

\* The conversational check: the first trigger of the table found in the
\* trimmed, lower-cased query text, 0 when there is none.
firstTrigger(normalizedQuery) ==
  LET hits == {k \in DOMAIN CONVERSATIONAL_RESPONSES :
                 includes(normalizedQuery, CONVERSATIONAL_RESPONSES[k].trigger)}
  IN  IF hits = {} THEN 0 ELSE CHOOSE k \in hits : \A h \in hits : k <= h

\* Lines 95-117: the query text, its length check and the conversational
\* replies, one of the trigger's responses picked at random.
webhook ==
  /\ pc = "webhook"
  /\ LET queryText == toLowerCase(IF Truthy(body.queryResult.queryText)
                                  THEN body.queryResult.queryText.s ELSE "")
         trigger == firstTrigger(trim(queryText))
     IN  IF Len(queryText) > SchemaMaxQueryText
         THEN /\ err' = ValidationError("Query text is too long (maximum 500 characters)")
              /\ pc' = "errorHandler"
              /\ UNCHANGED <<res, stages>>
         ELSE IF trigger # 0
         THEN /\ \E response \in CONVERSATIONAL_RESPONSES[trigger].responses :
                   res' = [status |-> 200, fulfillmentText |-> response]
              /\ pc' = "done"
              /\ stages' = Append(stages, "conversational")
              /\ UNCHANGED err
         ELSE /\ pc' = "extract"
              /\ UNCHANGED <<err, res, stages>>
  /\ UNCHANGED <<source, cachedPlans, timeVars, body, ctx, plans, filtered, availableFeatures,
                 unavailableFeatures, similarPlans, fnVars>>

\* Lines 119-125.
sortByOf(queryText) ==
  IF includes(queryText, "cheapest") THEN Str("price")
  ELSE IF includes(queryText, "best") \/ includes(queryText, "highest")
          \/ includes(queryText, "most") THEN Str("value")
  ELSE Null

\* Lines 133-157: the operator, the correction message and the note.
operatorOf(params, queryText) ==
  LET given == IF IsStr(params.operator) THEN Str(toLowerCase(params.operator.s))
               ELSE Undef
      corrected == correctOperatorName(given)
      changed == Truthy(given) /\ Truthy(corrected) /\ corrected # given
      operator == IF Truthy(given) THEN (IF changed THEN corrected ELSE given)
                  ELSE extractOperatorFromQuery(queryText)
      unsupported == Truthy(operator) /\ operator.s \notin AVAILABLE_OPERATORS
  IN  [operator |-> IF unsupported THEN Null ELSE operator,
       operatorCorrectionMessage |->
         IF changed THEN "(Assuming you meant " \o toUpperCase(corrected.s)
                           \o " instead of " \o toUpperCase(given.s) \o ") "
         ELSE "",
       missingOperatorMessage |->
         IF unsupported THEN "Note: I don't have information on "
                               \o toUpperCase(operator.s) \o " plans. "
         ELSE ""]

\* Lines 159-170.
planTypeOf(params, queryText) ==
  LET given == IF IsStr(params.plan_type) THEN toLowerCase(params.plan_type.s) ELSE ""
  IN  IF given # "" THEN given
      ELSE IF includes(queryText, "prepaid") THEN "prepaid"
      ELSE IF includes(queryText, "postpaid") THEN "postpaid"
      ELSE "prepaid"

\* Lines 174-190.
requestedFeaturesOf(queryText) ==
  (IF includes(queryText, "international roaming") THEN <<"international roaming">> ELSE <<>>)
  \o (IF includes(queryText, "ott") THEN <<"ott">> ELSE <<>>)
  \o (IF includes(queryText, "amazon prime") \/ includes(queryText, "prime video")
        THEN <<"amazon prime">> ELSE <<>>)
  \o (IF includes(queryText, "netflix") THEN <<"netflix">> ELSE <<>>)
  \o (IF includes(queryText, "hotstar") THEN <<"hotstar">> ELSE <<>>)

\* Lines 195-201.
isVoiceOnlyOf(queryText) ==
  \/ includes(queryText, "voice only")
  \/ includes(queryText, "voice-only")
  \/ includes(queryText, "calling only")
  \/ includes(queryText, "call only")
  \/ includes(queryText, "calling-only")
  \/ (includes(queryText, "only") /\ includes(queryText, "call")
        /\ ~includes(queryText, "data"))
  \/ (includes(queryText, "only") /\ includes(queryText, "voice")
        /\ ~includes(queryText, "data"))

\* Lines 119-207: the signals of the request.
extract ==
  /\ pc = "extract"
  /\ LET params == body.queryResult.parameters
         queryText == toLowerCase(body.queryResult.queryText.s)
         op == operatorOf(params, queryText)
     IN  ctx' = [queryText |-> queryText,
                 params |-> params,
                 sortBy |-> sortByOf(queryText),
                 minDailyData |-> extractDailyDataFromQuery(queryText),
                 targetDuration |-> processDurationParameter(params, queryText),
                 operator |-> op.operator,
                 operatorCorrectionMessage |-> op.operatorCorrectionMessage,
                 missingOperatorMessage |-> op.missingOperatorMessage,
                 planType |-> planTypeOf(params, queryText),
                 requestedFeatures |-> requestedFeaturesOf(queryText),
                 isVoiceOnly |-> isVoiceOnlyOf(queryText),
                 budget |-> processBudgetParameter(params, queryText)]
  /\ pc' = "getPlans"
  /\ stages' = Append(stages, "extract")
  /\ UNCHANGED <<source, cachedPlans, timeVars, body, plans, filtered, availableFeatures,
                 unavailableFeatures, similarPlans, err, res, fnVars>>

\* Lines 209-226 with getPlansData: the cached catalog while it is fresh,
\* else a fetch that refreshes the cache; after a failed fetch the stale
\* cache when it is younger than a day, else the error.  The age of the
\* cache and the outcome of the fetch are the environment's choice.
getPlans ==
  /\ pc = "getPlans"
  /\ \E fresh \in BOOLEAN, fetched \in BOOLEAN, recent \in BOOLEAN :
       LET useCache == cachedPlans # Null /\ fresh
           useStale == ~useCache /\ ~fetched /\ cachedPlans # Null /\ recent
           failed == ~useCache /\ ~fetched /\ ~useStale
           data == IF useCache \/ useStale THEN cachedPlans ELSE source
           result == IF failed
                     THEN Thrown(ExternalAPIError("Failed to fetch plans data after 4 attempts"))
                     ELSE getPlansForOperator(data, ctx.operator, ctx.planType)
       IN  /\ cachedPlans' = IF ~useCache /\ fetched THEN source ELSE cachedPlans
           /\ lastFetchTime' = IF ~useCache /\ fetched THEN clock ELSE lastFetchTime
           /\ IF result.ok
              THEN /\ plans' = result.value
                   /\ pc' = "voiceOnly"
                   /\ UNCHANGED <<err, res>>
              ELSE IF result.error.name = "PlanNotFoundError"
              THEN /\ res' = [status |-> 200,
                              fulfillmentText |->
                                ctx.missingOperatorMessage \o result.error.message
                                  \o ". Try adjusting your search criteria or checking other operators."]
                   /\ pc' = "done"
                   /\ UNCHANGED <<plans, err>>
              ELSE /\ err' = result.error
                   /\ pc' = "errorHandler"
                   /\ UNCHANGED <<plans, res>>
  /\ stages' = Append(stages, "getPlansForOperator")
  /\ UNCHANGED <<source, clock, calls, body, ctx, filtered, availableFeatures,
                 unavailableFeatures, similarPlans, fnVars>>

\* The voice-only stage without the length test: the filter's result
\* replaces the plans even when it is empty.
voiceOnlyStageStrict ==
  /\ pc = "voiceOnly"
  /\ plans' = IF ctx.isVoiceOnly THEN filterVoiceOnlyPlans(plans) ELSE plans
  /\ pc' = "dailyData"
  /\ stages' = Append(stages, "voiceOnly")
  /\ UNCHANGED <<source, cachedPlans, timeVars, body, ctx, filtered, availableFeatures,
                 unavailableFeatures, similarPlans, err, res, fnVars>>

\* Lines 234-247.
voiceOnlyStage ==
  /\ pc = "voiceOnly"
  /\ plans' = IF ctx.isVoiceOnly /\ filterVoiceOnlyPlans(plans) # <<>>
              THEN filterVoiceOnlyPlans(plans) ELSE plans
  /\ pc' = "dailyData"
  /\ stages' = Append(stages, "voiceOnly")
  /\ UNCHANGED <<source, cachedPlans, timeVars, body, ctx, filtered, availableFeatures,
                 unavailableFeatures, similarPlans, err, res, fnVars>>

\* Lines 249-253.
dailyDataStage ==
  /\ pc = "dailyData"
  /\ plans' = IF Truthy(ctx.minDailyData)
              THEN filterByDailyData(plans, ctx.minDailyData) ELSE plans
  /\ pc' = "constraints"
  /\ stages' = Append(stages, "dailyData")
  /\ UNCHANGED <<source, cachedPlans, timeVars, body, ctx, filtered, availableFeatures,
                 unavailableFeatures, similarPlans, err, res, fnVars>>

\* The constraints stage with a filter that removes the plans it rejects
\* from the list it is given.
constraintsStageInPlace ==
  /\ pc = "constraints"
  /\ filtered' = filterPlansByConstraints(plans, ctx.targetDuration, ctx.budget)
  /\ plans' = filtered'
  /\ pc' = "features"
  /\ stages' = Append(stages, "constraints")
  /\ UNCHANGED <<source, cachedPlans, timeVars, body, ctx, availableFeatures,
                 unavailableFeatures, similarPlans, err, res, fnVars>>

\* Lines 255-257.
constraintsStage ==
  /\ pc = "constraints"
  /\ filtered' = filterPlansByConstraints(plans, ctx.targetDuration, ctx.budget)
  /\ pc' = "features"
  /\ stages' = Append(stages, "constraints")
  /\ UNCHANGED <<source, cachedPlans, timeVars, body, ctx, plans, availableFeatures,
                 unavailableFeatures, similarPlans, err, res, fnVars>>

operatorText(operator) == IF Truthy(operator) THEN toUpperCase(operator.s) \o " " ELSE ""

\* Lines 259-286: the second push of 'international roaming', the feature
\* filter, the availability split and the reply when no plan has them all.
featureStage ==
  /\ pc = "features"
  /\ LET requestedFeatures ==
           ctx.requestedFeatures
             \o (IF includes(ctx.queryText, "international")
                    /\ includes(ctx.queryText, "roaming")
                 THEN <<"international roaming">> ELSE <<>>)
         plansWithFeatures == filterPlansByFeatures(filtered, requestedFeatures)
         featureCheck == checkFeatureAvailability(filtered, requestedFeatures)
     IN  /\ ctx' = [ctx EXCEPT !.requestedFeatures = requestedFeatures]
         /\ IF requestedFeatures # <<>>
            THEN /\ availableFeatures' = featureCheck.availableFeatures
                 /\ unavailableFeatures' = featureCheck.unavailableFeatures
                 /\ IF plansWithFeatures = <<>>
                    THEN /\ res' = [status |-> 200,
                                    fulfillmentText |->
                                      "No " \o operatorText(ctx.operator)
                                        \o toUpperCase(ctx.planType) \o " plans found with "
                                        \o join(requestedFeatures, " and ") \o "."]
                         /\ pc' = "done"
                         /\ UNCHANGED filtered
                    ELSE /\ filtered' = plansWithFeatures
                         /\ pc' = "international"
                         /\ UNCHANGED res
            ELSE /\ pc' = "international"
                 /\ UNCHANGED <<availableFeatures, unavailableFeatures, filtered, res>>
  /\ stages' = Append(stages, "features")
  /\ UNCHANGED <<source, cachedPlans, timeVars, body, plans, similarPlans, err, fnVars>>

\* The international stage without its return: after the reply on an empty
\* result the handler goes on to the composition.
internationalStageNoReturn ==
  /\ pc = "international"
  /\ IF includes(ctx.queryText, "international") \/ includes(ctx.queryText, "roaming")
     THEN /\ filtered' = filterInternationalPlans(filtered)
          /\ IF filterInternationalPlans(filtered) = <<>>
             THEN res' = [status |-> 200,
                          fulfillmentText |->
                            "No " \o operatorText(ctx.operator)
                              \o "international roaming plans found."]
             ELSE UNCHANGED res
     ELSE UNCHANGED <<filtered, res>>
  /\ pc' = "compose"
  /\ stages' = Append(stages, "international")
  /\ UNCHANGED <<source, cachedPlans, timeVars, body, ctx, plans, availableFeatures,
                 unavailableFeatures, similarPlans, err, fnVars>>

\* The trigger on the word 'international' alone.
isInternationalQueryStrict(queryText) == includes(queryText, "international")

\* Line 289.
isInternationalQuery(queryText) ==
  includes(queryText, "international") \/ includes(queryText, "roaming")

\* Lines 288-299.
internationalStage ==
  /\ pc = "international"
  /\ IF isInternationalQuery(ctx.queryText)
     THEN /\ filtered' = filterInternationalPlans(filtered)
          /\ IF filterInternationalPlans(filtered) = <<>>
             THEN /\ res' = [status |-> 200,
                             fulfillmentText |->
                               "No " \o operatorText(ctx.operator)
                                 \o "international roaming plans found. Please check the operator's website or customer care for international roaming activation and rates."]
                  /\ pc' = "done"
             ELSE /\ pc' = "compose"
                  /\ UNCHANGED res
     ELSE /\ pc' = "compose"
          /\ UNCHANGED <<filtered, res>>
  /\ stages' = Append(stages, "international")
  /\ UNCHANGED <<source, cachedPlans, timeVars, body, ctx, plans, availableFeatures,
                 unavailableFeatures, similarPlans, err, fnVars>>

\* The fallback entered whenever a target duration is set and there are
\* plans, whatever was found.
similarityFallbackAlways(plansToShow, targetDuration, allPlans) ==
  Truthy(targetDuration) /\ allPlans # <<>>

\* Lines 310 and 347-349: the else branch of plansToShow.length > 0 with
\* targetDuration && plans.length > 0, where findSimilarPlans is called.
similarityFallback(plansToShow, targetDuration, allPlans) ==
  plansToShow = <<>> /\ Truthy(targetDuration) /\ allPlans # <<>>

\* Lines 301-417: the reply.  A non-empty result is listed, cut to
\* MAX_PLANS_TO_SHOW; an empty one is answered with the plans of similar
\* validity, the cheapest price or a no-match text.
\* The note on limited results is added at the cap already.
resultsLimitedAtCap(items) == Len(items) >= MAX_PLANS_TO_SHOW

\* filtered.length > CONFIG.MAX_PLANS_TO_SHOW
resultsLimited(items) == Len(items) > MAX_PLANS_TO_SHOW

compose ==
  /\ pc = "compose"
  /\ LET plansToShow == slice0(filtered, MAX_PLANS_TO_SHOW)
         operator == ctx.operator
         planType == ctx.planType
         budget == ctx.budget
         targetDuration == ctx.targetDuration
         note == IF unavailableFeatures # <<>>
                 THEN "Note: None of these plans include "
                        \o join(unavailableFeatures, " or ") \o ".\n\n"
                 ELSE ""
         budgetText == IF Truthy(budget) THEN " under ₹" \o toString(budget) ELSE ""
         voiceText == IF ctx.isVoiceOnly THEN " VOICE-ONLY" ELSE ""
         sortText == IF ctx.sortBy = Str("price") THEN " (cheapest first)"
                     ELSE IF ctx.sortBy = Str("value") THEN " (best value first)"
                     ELSE ""
         durationText == IF Truthy(targetDuration)
                         THEN " with " \o toString(targetDuration) \o " days validity"
                         ELSE ""
         similar == findSimilarPlans(plans, targetDuration, budget, Undef)
         fallback == similarityFallback(plansToShow, targetDuration, plans)
         text ==
           IF plansToShow # <<>>
           THEN "Here are " \o operatorText(operator) \o toUpperCase(planType)
                  \o voiceText \o " plans" \o budgetText \o durationText \o sortText
                  \o ":\n\n" \o planLines(plansToShow, operator, planType)
                  \o (IF resultsLimited(filtered)
                      THEN "\n\n(Showing " \o natToString(MAX_PLANS_TO_SHOW) \o " out of "
                             \o natToString(Len(filtered)) \o " available plans)"
                      ELSE "")
           ELSE IF fallback /\ similar # <<>>
           THEN "No exact " \o operatorText(operator) \o toUpperCase(planType)
                  \o voiceText \o " plans with " \o toString(targetDuration)
                  \o " days validity" \o budgetText
                  \o " found. Here are some alternatives:\n\n"
                  \o planLines(similar, operator, planType)
           ELSE IF fallback
           THEN "No matching " \o operatorText(operator) \o toUpperCase(planType)
                  \o voiceText \o " plans found with " \o toString(targetDuration)
                  \o " days validity" \o budgetText \o ". Try adjusting your filters."
           ELSE IF Truthy(budget) /\ plans # <<>>
           THEN "No " \o operatorText(operator) \o toUpperCase(planType) \o voiceText
                  \o " plans found under ₹" \o toString(budget)
                  \o ". The cheapest available plan is ₹" \o toString(minPrice(plans)) \o "."
           ELSE IF plans # <<>>
           THEN "No matching " \o operatorText(operator) \o toUpperCase(planType)
                  \o voiceText \o " plans found" \o durationText \o budgetText \o "."
                  \o (IF Truthy(targetDuration) \/ Truthy(budget)
                      THEN " Try adjusting your filters." ELSE "")
           ELSE "No " \o toUpperCase(planType) \o voiceText \o " plans available for "
                  \o (IF Truthy(operator) THEN toUpperCase(operator.s) ELSE "any operator")
                  \o ". Would you like to check "
                  \o (IF planType = "prepaid" THEN "postpaid" ELSE "prepaid")
                  \o " plans instead?"
     IN  /\ similarPlans' = IF fallback THEN similar ELSE similarPlans
         /\ stages' = stages \o <<"compose">>
                        \o (IF fallback THEN <<"findSimilarPlans">> ELSE <<>>)
         /\ res' = [status |-> 200, fulfillmentText |-> note \o text]
  /\ pc' = "done"
  /\ UNCHANGED <<source, cachedPlans, timeVars, body, ctx, plans, filtered, availableFeatures,
                 unavailableFeatures, err, fnVars>>

\* The response is sent; the handler's variables go out of scope.
finish ==
  /\ pc = "done"
  /\ pc' = "idle"
  /\ body' = NoBody
  /\ ctx' = NoCtx
  /\ plans' = <<>>
  /\ filtered' = <<>>
  /\ availableFeatures' = <<>>
  /\ unavailableFeatures' = <<>>
  /\ similarPlans' = <<>>
  /\ err' = NoErr
  /\ res' = NoRes
  /\ stages' = <<>>
  /\ UNCHANGED <<source, cachedPlans, timeVars, fnVars>>

Next ==
  \/ ReceiveRequest
  \/ validateWebhookRequest
  \/ validateRequest
  \/ sanitizeInput
  \/ webhook
  \/ extract
  \/ getPlans
  \/ voiceOnlyStage
  \/ dailyDataStage
  \/ constraintsStage
  \/ featureStage
  \/ internationalStage
  \/ compose
  \/ errorHandler
  \/ finish

Spec == Init /\ [][Next]_vars

(***************************************************************************)
(* utils/logger.js: the class ResponseGenerator.                           *)
(*                                                                         *)
(* An array argument is Arr(items), so that null and undefined stay apart  *)
(* from the empty array.  A method returns Returned(value) or, where the   *)
(* code reads a property of null or undefined, Thrown(TypeError).          *)
(***************************************************************************)
Arr(items) == [t |-> "arr", items |-> items]

TypeError(message) == [name |-> "TypeError", statusCode |-> 500, message |-> message]

\* The parameters of generateResponse, Undef for a key that is absent.
GenParams(plans_, filteredPlans, alternativePlans, queryText, isConversational) ==
  [plans |-> plans_, filteredPlans |-> filteredPlans,
   alternativePlans |-> alternativePlans, queryText |-> queryText,
   isConversational |-> isConversational,
   operator |-> Undef, planType |-> Str("prepaid"), budget |-> Undef,
   targetDuration |-> Undef, isVoiceOnly |-> FALSE, sortBy |-> Undef,
   correctedOperator |-> Undef, originalOperator |-> Undef,
   missingOperator |-> Undef, requestedFeatures |-> Undef,
   unavailableFeatures |-> Undef, isInternationalQuery |-> FALSE]

\* A destructuring default: it replaces undefined, not null.
OrDefault(v, default) == IF v = Undef THEN default ELSE v

formatPlanItem(plan, showProvider) ==
  planLine(plan, IF showProvider THEN Null ELSE Str("operator"), "")

generateContextStrings(params) ==
  LET planType == OrDefault(params.planType, Str("prepaid"))
      voiceText == IF params.isVoiceOnly THEN " VOICE-ONLY" ELSE ""
  IN  [operatorText |-> operatorText(params.operator),
       budgetText |-> IF Truthy(params.budget)
                      THEN " under ₹" \o toString(params.budget) ELSE "",
       durationText |-> IF Truthy(params.targetDuration)
                        THEN " with " \o toString(params.targetDuration)
                               \o " days validity"
                        ELSE "",
       voiceText |-> voiceText,
       sortText |-> IF params.sortBy = Str("price") THEN " (cheapest first)"
                    ELSE IF params.sortBy = Str("value") THEN " (best value first)"
                    ELSE "",
       correctionMessage |->
         IF Truthy(params.correctedOperator) /\ Truthy(params.originalOperator)
         THEN "(Assuming you meant " \o toUpperCase(params.correctedOperator.s)
                \o " instead of " \o toUpperCase(params.originalOperator.s) \o ") "
         ELSE "",
       missingOperatorMessage |->
         IF Truthy(params.missingOperator)
         THEN "Note: I don't have information on "
                \o toUpperCase(params.missingOperator.s) \o " plans. "
         ELSE "",
       planTypeText |-> toUpperCase(planType.s) \o voiceText]

\* The note on truncated results follows a list longer than the limit.
limited(plans_) == Len(plans_) > MAX_PLANS_TO_SHOW

generatePlansFoundResponse(plans_, params) ==
  LET context == generateContextStrings(params)
      plansToShow == slice0(plans_, MAX_PLANS_TO_SHOW)
      showProvider == ~Truthy(params.operator)
      featureNote ==
        IF params.unavailableFeatures # Undef /\ params.unavailableFeatures.items # <<>>
        THEN "Note: None of these plans include "
               \o join(params.unavailableFeatures.items, " or ") \o ".\n\n"
        ELSE ""
      heading ==
        (IF Len(plansToShow) = 1
         THEN "Here's a " \o context.planTypeText \o " plan "
         ELSE "Here are " \o natToString(Len(plansToShow)) \o " "
                \o context.planTypeText \o " plans ")
          \o context.operatorText \o context.budgetText \o context.durationText
          \o context.sortText \o ":"
  IN  context.correctionMessage \o context.missingOperatorMessage \o featureNote
        \o heading \o "\n\n"
        \o join([i \in 1..Len(plansToShow) |->
                   formatPlanItem(plansToShow[i], showProvider)], "\n")
        \o (IF limited(plans_)
            THEN "\n\n(Showing " \o natToString(MAX_PLANS_TO_SHOW) \o " out of "
                   \o natToString(Len(plans_)) \o " available plans)"
            ELSE "")

generateAlternativesResponse(alternativePlans, params) ==
  LET context == generateContextStrings(params)
      showProvider == ~Truthy(params.operator)
      heading ==
        IF Truthy(params.targetDuration)
        THEN "No exact " \o context.planTypeText \o " plans with "
               \o toString(params.targetDuration) \o " days validity"
               \o context.budgetText \o " found. Here are some alternatives:"
        ELSE "No matching " \o context.planTypeText \o " plans found"
               \o context.durationText \o context.budgetText
               \o ". Try adjusting your filters."
  IN  context.correctionMessage \o context.missingOperatorMessage \o heading \o "\n\n"
        \o join([i \in 1..Len(alternativePlans) |->
                   formatPlanItem(alternativePlans[i], showProvider)], "\n")

\* availablePlans is the plans of the caller: null where the caller passed
\* null, whose length cannot be read.
generateNoPlansResponse(params, availablePlans) ==
  LET context == generateContextStrings(params)
      start == context.correctionMessage \o context.missingOperatorMessage
      lengthRead == TypeError("Cannot read properties of null (reading 'length')")
  IN  IF params.requestedFeatures # Undef /\ params.requestedFeatures.items # <<>>
        THEN Returned(Str(start \o "No " \o context.operatorText
                            \o context.planTypeText \o " plans found with "
                            \o join(params.requestedFeatures.items, " and ") \o "."))
      ELSE IF params.isInternationalQuery
        THEN Returned(Str(start \o "No " \o context.operatorText
                            \o "international roaming plans found. Please check the operator's website or customer care for international roaming activation and rates."))
      ELSE IF Truthy(params.budget) /\ availablePlans = Null
        THEN Thrown(lengthRead)
      ELSE IF Truthy(params.budget) /\ availablePlans.items # <<>>
        THEN Returned(Str(start \o "No " \o context.planTypeText
                            \o " plans found under ₹" \o toString(params.budget)
                            \o ". The cheapest available plan is ₹"
                            \o toString(minPrice(availablePlans.items)) \o "."))
      ELSE IF availablePlans = Null
        THEN Thrown(lengthRead)
      ELSE IF availablePlans.items # <<>>
        THEN Returned(Str(start \o "No matching " \o context.planTypeText
                            \o " plans found" \o context.durationText
                            \o context.budgetText \o ". Try adjusting your filters."
                            \o (IF Truthy(params.targetDuration) \/ Truthy(params.budget)
                                THEN " Try adjusting your filters." ELSE "")))
      ELSE Returned(Str(start \o "No " \o context.planTypeText
                          \o " plans available for "
                          \o (IF Truthy(params.operator)
                              THEN toUpperCase(params.operator.s) ELSE "any operator")
                          \o ". Would you like to check "
                          \o (IF params.planType = Str("prepaid")
                              THEN "postpaid" ELSE "prepaid")
                          \o " plans instead?"))

\* The outcomes of generateConversationalResponse: one per response of the
\* first trigger found, the pick being random.
generateConversationalResponse(queryText) ==
  IF ~IsStr(queryText)
  THEN {Thrown(TypeError("Cannot read properties of null (reading 'toLowerCase')"))}
  ELSE LET trigger == firstTrigger(trim(toLowerCase(queryText.s)))
       IN  IF trigger = 0 THEN {Returned(Null)}
           ELSE {Returned(Str(response)) :
                   response \in CONVERSATIONAL_RESPONSES[trigger].responses}

\* The outcomes of generateResponse.
generateResponse(params) ==
  LET plans_ == OrDefault(params.plans, Arr(<<>>))
      filteredPlans == OrDefault(params.filteredPlans, Arr(<<>>))
      alternativePlans == OrDefault(params.alternativePlans, Arr(<<>>))
      queryText == OrDefault(params.queryText, Str(""))
      conversational == IF params.isConversational
                        THEN generateConversationalResponse(queryText)
                        ELSE {Returned(Null)}
      lengthRead == TypeError("Cannot read properties of null (reading 'length')")
      planResponse ==
        IF filteredPlans = Null THEN Thrown(lengthRead)
        ELSE IF filteredPlans.items # <<>>
          THEN Returned(Str(generatePlansFoundResponse(filteredPlans.items, params)))
        ELSE IF alternativePlans = Null THEN Thrown(lengthRead)
        ELSE IF alternativePlans.items # <<>>
          THEN Returned(Str(generateAlternativesResponse(alternativePlans.items, params)))
        ELSE generateNoPlansResponse(params, plans_)
  IN  {IF r.ok /\ r.value = Null THEN planResponse ELSE r : r \in conversational}

(***************************************************************************)
(* The filter functions applied on their own, to plan lists of every       *)
(* order.                                                                  *)
(***************************************************************************)
InitFn ==
  /\ source = Data(CatalogMock)
  /\ ColdCache
  /\ IdleRequest
  /\ fnPlans \in FnPlanLists
  /\ fnText = Null
  /\ fnCall = NoCall

CallFilterPlansByConstraints ==
  /\ fnCall = NoCall
  /\ \E targetDuration \in FnDurations, budget \in FnBudgets :
       fnCall' = [fn |-> "filterPlansByConstraints",
                  targetDuration |-> targetDuration, budget |-> budget,
                  result |-> filterPlansByConstraints(fnPlans, targetDuration, budget)]
  /\ UNCHANGED <<source, cachedPlans, timeVars, requestVars, fnPlans, fnText>>

CallFindSimilarPlans ==
  /\ fnCall = NoCall
  /\ \E targetDuration \in FnDurations \ {Null}, budget \in FnBudgets,
        maxResults \in FnMaxResults :
       fnCall' = [fn |-> "findSimilarPlans",
                  targetDuration |-> targetDuration, budget |-> budget,
                  maxResults |-> maxResults,
                  result |-> findSimilarPlans(fnPlans, targetDuration, budget, maxResults)]
  /\ UNCHANGED <<source, cachedPlans, timeVars, requestVars, fnPlans, fnText>>

CallFilterPlansByFeatures ==
  /\ fnCall = NoCall
  /\ \E features \in FnFeatureLists :
       fnCall' = [fn |-> "filterPlansByFeatures", features |-> features,
                  result |-> filterPlansByFeatures(fnPlans, features)]
  /\ UNCHANGED <<source, cachedPlans, timeVars, requestVars, fnPlans, fnText>>

NextFn ==
  \/ CallFilterPlansByConstraints
  \/ CallFindSimilarPlans
  \/ CallFilterPlansByFeatures

SpecFn == InitFn /\ [][NextFn]_vars

(***************************************************************************)
(* The text functions applied on their own, to the texts of the unit tests *)
(* and to operator names and month phrases alone and inside a sentence.    *)
(***************************************************************************)
FnTexts ==
  {Null, Str("")}
    \cup {Str(MONTH_MAPPINGS[k][1]) : k \in DOMAIN MONTH_MAPPINGS}
    \cup {Str(t) : t \in
           {"i need a 1 month plan", "show me 2 months validity", "three month plan",
            "plans for a month", "recharge for two months",
            "28 days", "28 days plan", "plan with 56 days validity", "56 Days",
            "1 day", "cheap plan", "Validity: 28", "bill cycle",
            "geo", "geo plans", "artel", "artel network", "vodafone idea",
            "vodaphone", "vodaphone plans", "idea", "idea prepaid",
            "jio", "jio plans", "JIO", "airtel", "airtel network",
            "vi", "vi recharge", "vodafone", "vodafone prepaid",
            "unknown", "bsnl", "cheap movie plans",
            "hi", "hello there", "how are you", "show me plans", "thanks a lot"}}

InitText ==
  /\ source = Data(CatalogMock)
  /\ ColdCache
  /\ IdleRequest
  /\ fnPlans = <<>>
  /\ fnText \in FnTexts
  /\ fnCall = NoCall

\* extractDurationFromQuery calls includes on its argument: a string.
CallExtractDurationFromQuery ==
  /\ fnCall = NoCall
  /\ IsStr(fnText)
  /\ fnCall' = [fn |-> "extractDurationFromQuery",
                result |-> extractDurationFromQuery(fnText.s)]
  /\ UNCHANGED <<source, cachedPlans, timeVars, requestVars, fnPlans, fnText>>

CallParseValidity ==
  /\ fnCall = NoCall
  /\ fnCall' = [fn |-> "parseValidity", result |-> parseValidity(fnText)]
  /\ UNCHANGED <<source, cachedPlans, timeVars, requestVars, fnPlans, fnText>>

CallCorrectOperatorName ==
  /\ fnCall = NoCall
  /\ fnCall' = [fn |-> "correctOperatorName", result |-> correctOperatorName(fnText)]
  /\ UNCHANGED <<source, cachedPlans, timeVars, requestVars, fnPlans, fnText>>

CallGenerateConversationalResponse ==
  /\ fnCall = NoCall
  /\ \E result \in generateConversationalResponse(fnText) :
       fnCall' = [fn |-> "generateConversationalResponse", result |-> result]
  /\ UNCHANGED <<source, cachedPlans, timeVars, requestVars, fnPlans, fnText>>

\* The plan arguments of generateResponse: absent, null, empty, two plans.
FnPlanArgs ==
  {Undef, Null, Arr(<<>>), Arr(stamp(<<Plan149, Plan399>>, "jio"))}

CallGenerateResponse ==
  /\ fnCall = NoCall
  /\ \E plans_ \in FnPlanArgs, filteredPlans \in FnPlanArgs,
        isConversational \in BOOLEAN :
       LET params == GenParams(plans_, filteredPlans, Undef, fnText, isConversational)
       IN  \E result \in generateResponse(params) :
             fnCall' = [fn |-> "generateResponse", params |-> params,
                        result |-> result]
  /\ UNCHANGED <<source, cachedPlans, timeVars, requestVars, fnPlans, fnText>>

NextText ==
  \/ CallExtractDurationFromQuery
  \/ CallParseValidity
  \/ CallCorrectOperatorName
  \/ CallGenerateConversationalResponse
  \/ CallGenerateResponse

SpecText == InitText /\ [][NextText]_vars

(***************************************************************************)
(* The filters applied on their own to plan records with fields that are   *)
(* null or missing, to plans whose data field merely contains '0GB' and    *)
(* to plans with data in GB, in MB and unlimited.                          *)
(***************************************************************************)
MaxEdgePlans == 2

Plan10GB == Plan("549 Plan", Num(549), "10GB", Str("56 days"),
                 "Unlimited voice calls, 100 SMS/day", "")
PlanNoDataVoice == Plan("49 Voice Plan", Num(49), "No data", Str("28 days"),
                        "Voice calls only", "")
PlanNullPrice == Plan("Null price", Null, "2GB", Str("28 days"),
                      "Unlimited voice calls, 100 SMS/day", "Netflix")
PlanNoPrice == Plan("No price", Undef, "1GB", Str("28 days"),
                    "Unlimited voice calls", "International roaming")
PlanNoData == Plan("No data field", Num(199), "", Str("28 days"),
                   "Unlimited voice calls", "")
PlanNoValidity == Plan("No validity", Num(249), "2GB", Undef,
                       "Unlimited voice calls, 100 SMS/day", "")
PlanNullValidity == Plan("Null validity", Num(349), "84GB", Null,
                         "Unlimited voice calls, 100 SMS/day", "")
PlanNoBenefits == Plan("No benefits", Num(19), "0GB", Str("28 days"), "", "")
Plan56GB == Plan("High Data Plan", Num(479), "56GB", Str("28 days"),
                 "Unlimited voice calls, 2GB data per day", "")
Plan2048MB == Plan("Day Pack", Num(29), "2048MB", Num(1), "2048MB data for a day", "")

EdgePlanPool ==
  {Plan10GB, PlanNoDataVoice, PlanNullPrice, PlanNoPrice, PlanNoData,
   PlanNoValidity, PlanNullValidity, PlanNoBenefits, Plan99, Plan149,
   Plan56GB, Plan2048MB, Plan555}

EdgePlanLists ==
  {l \in UNION {[1..n -> EdgePlanPool] : n \in 0..MaxEdgePlans} :
     \A i, j \in DOMAIN l : i # j => l[i] # l[j]}

\* Minimum daily data in GB: 1 and 1.5.
FnDailyData == {Frac(1, 1), Frac(3, 2)}

InitEdge ==
  /\ source = Data(CatalogMock)
  /\ ColdCache
  /\ IdleRequest
  /\ fnPlans \in EdgePlanLists
  /\ fnText = Null
  /\ fnCall = NoCall

CallFilterVoiceOnlyPlans ==
  /\ fnCall = NoCall
  /\ fnCall' = [fn |-> "filterVoiceOnlyPlans",
                result |-> filterVoiceOnlyPlans(fnPlans)]
  /\ UNCHANGED <<source, cachedPlans, timeVars, requestVars, fnPlans, fnText>>

CallFilterByDailyData ==
  /\ fnCall = NoCall
  /\ \E minDailyData \in FnDailyData :
       fnCall' = [fn |-> "filterByDailyData", minDailyData |-> minDailyData,
                  result |-> filterByDailyData(fnPlans, minDailyData)]
  /\ UNCHANGED <<source, cachedPlans, timeVars, requestVars, fnPlans, fnText>>

CallFilterInternationalPlans ==
  /\ fnCall = NoCall
  /\ fnCall' = [fn |-> "filterInternationalPlans",
                result |-> filterInternationalPlans(fnPlans)]
  /\ UNCHANGED <<source, cachedPlans, timeVars, requestVars, fnPlans, fnText>>

NextEdge ==
  \/ CallFilterVoiceOnlyPlans
  \/ CallFilterByDailyData
  \/ CallFilterPlansByConstraints
  \/ CallFilterPlansByFeatures
  \/ CallFilterInternationalPlans
  \/ CallFindSimilarPlans

SpecEdge == InitEdge /\ [][NextEdge]_vars

(***************************************************************************)
(* getPlansForOperator applied on its own to catalogs of two operators     *)
(* whose prepaid and postpaid plans are nested in every way: absent, an    *)
(* array, an object of arrays, and arrays one to three objects deeper.     *)
(***************************************************************************)
\* The shapes of a plan-type node that holds the plans a and b.
NodeShapes(a, b) ==
  {Undef,
   ArrayNode(<<a, b>>),
   ObjectNode(<<>>),
   ObjectNode(<<ArrayNode(<<a>>), ArrayNode(<<b>>)>>),
   ObjectNode(<<ObjectNode(<<ArrayNode(<<a>>)>>), ArrayNode(<<b>>)>>),
   ObjectNode(<<ArrayNode(<<a>>), ObjectNode(<<ObjectNode(<<ArrayNode(<<b>>)>>)>>)>>),
   ObjectNode(<<ObjectNode(<<ObjectNode(<<ObjectNode(<<ArrayNode(<<a>>)>>)>>)>>),
                ObjectNode(<<Scalar, ArrayNode(<<b>>)>>)>>)}

ShapeCatalogs ==
  {<<Provider("jio", jioPrepaid, jioPostpaid),
     Provider("airtel", airtelPrepaid, airtelPostpaid)>> :
     jioPrepaid \in NodeShapes(Plan149, PlanNullPrice),
     jioPostpaid \in NodeShapes(PlanPostpaid, PlanNoData),
     airtelPrepaid \in NodeShapes(Plan179, Plan699),
     airtelPostpaid \in {Undef, ArrayNode(<<Plan299>>)}}

FnOperators == {Null, Str("jio"), Str("airtel"), Str("vi")}

InitCatalog ==
  /\ source \in {Data(catalog) : catalog \in ShapeCatalogs}
  /\ ColdCache
  /\ IdleRequest
  /\ fnPlans = <<>>
  /\ fnText = Null
  /\ fnCall = NoCall

\* getPlansForOperator on a cold cache: getPlansData fetches the catalog
\* and caches it.
CallGetPlansForOperator ==
  /\ fnCall = NoCall
  /\ \E operator \in FnOperators, planType \in {"prepaid", "postpaid"} :
       fnCall' = [fn |-> "getPlansForOperator", operator |-> operator,
                  planType |-> planType,
                  result |-> getPlansForOperator(source, operator, planType)]
  /\ cachedPlans' = source
  /\ lastFetchTime' = clock
  /\ UNCHANGED <<source, clock, calls, requestVars, fnPlans, fnText>>

NextCatalog == CallGetPlansForOperator

SpecCatalog == InitCatalog /\ [][NextCatalog]_vars

(***************************************************************************)
(* services/planService.js: getPlansData called by callers whose requests  *)
(* overlap.  A call runs without interruption up to an await; the steps    *)
(* of different calls between their awaits interleave in every order,      *)
(* while time passes and the catalog served changes.                       *)
(***************************************************************************)
\* CONFIG.CACHE_DURATION, one hour in ms.
CACHE_DURATION == 3600000

\* 24 * 60 * 60 * 1000
STALE_LIMIT == 86400000

RETRY_CONFIG == [maxRetries |-> 3]

\* The times at which a step can happen: the start, 5 ms later, exactly
\* the cache duration and 6 ms more after the start, and a day after that.
Times ==
  {StartTime, StartTime + 5, StartTime + CACHE_DURATION, StartTime + CACHE_DURATION + 6,
   StartTime + CACHE_DURATION + STALE_LIMIT}

\* The catalogs the server publishes over time.
CacheCatalogs == {Data(CatalogMock), Data(CatalogSingle)}

\* What a fetch can end in: a response with valid JSON, a response whose
\* JSON lacks telecom_providers, the 10 s abort, HTTP 404, any other error.
FetchOutcomes == {"ok", "invalid", "abort", "404", "error"}

InitCache ==
  /\ source \in CacheCatalogs
  /\ ColdCache
  /\ IdleRequest
  /\ fnPlans = <<>>
  /\ fnText = Null
  /\ fnCall = NoCall

\* Line 107: !cachedPlans || now - lastFetchTime > CONFIG.CACHE_DURATION
cacheExpired(now) == cachedPlans = Null \/ now - lastFetchTime > CACHE_DURATION

\* Line 132: cachedPlans && now - lastFetchTime < 24 * 60 * 60 * 1000
staleUsable(now) == cachedPlans # Null /\ now - lastFetchTime < STALE_LIMIT

\* Lines 128-138: the catch of getPlansData.
afterFailure(call, error) ==
  [call EXCEPT !.pc = "returned",
               !.result = IF staleUsable(call.now)
                          THEN Returned(cachedPlans) ELSE Thrown(error)]

\* Lines 105-110 and 140: the call reads the time, then returns the cache
\* or starts the fetch and is suspended on it.
CallGetPlansData(c) ==
  /\ calls[c].pc = "idle"
  /\ LET now == clock
     IN  calls' = [calls EXCEPT ![c] =
                     IF cacheExpired(now)
                     THEN [pc |-> "fetching", now |-> now, retryCount |-> 0,
                           result |-> Null]
                     ELSE [pc |-> "returned", now |-> now, retryCount |-> 0,
                           result |-> Returned(cachedPlans)]]
  /\ UNCHANGED <<source, cachedPlans, lastFetchTime, clock, requestVars, fnVars>>

\* The fetch of fetchWithRetry settles (lines 50-95) and the call runs on:
\* with a valid response through lines 118-126 and 140, which store the
\* data with the time read at line 106; after an error into the sleep
\* before the next attempt, or through the catch of lines 128-138.
FetchSettles(c) ==
  /\ calls[c].pc = "fetching"
  /\ \E outcome \in FetchOutcomes :
       LET call == calls[c]
       IN  IF outcome = "ok"
           THEN /\ cachedPlans' = source
                /\ lastFetchTime' = call.now
                /\ calls' = [calls EXCEPT ![c] =
                               [call EXCEPT !.pc = "returned",
                                            !.result = Returned(source)]]
           ELSE /\ UNCHANGED <<cachedPlans, lastFetchTime>>
                /\ calls' = [calls EXCEPT ![c] =
                     IF outcome = "invalid"
                     THEN afterFailure(call,
                            ExternalAPIError("Invalid plans data structure received"))
                     ELSE IF outcome = "abort"
                     THEN afterFailure(call,
                            ExternalAPIError("Request timeout while fetching plans data"))
                     ELSE IF outcome = "404"
                     THEN afterFailure(call,
                            ExternalAPIError("Plans data source not found"))
                     ELSE IF call.retryCount < RETRY_CONFIG.maxRetries
                     THEN [call EXCEPT !.pc = "sleeping"]
                     ELSE afterFailure(call,
                            ExternalAPIError("Failed to fetch plans data after 4 attempts: HTTP 500: Internal Server Error"))]
  /\ UNCHANGED <<source, clock, requestVars, fnVars>>

\* Lines 87-89: the sleep ends and the next attempt is started.
RetryFetch(c) ==
  /\ calls[c].pc = "sleeping"
  /\ calls' = [calls EXCEPT ![c] =
                 [calls[c] EXCEPT !.pc = "fetching",
                                  !.retryCount = calls[c].retryCount + 1]]
  /\ UNCHANGED <<source, cachedPlans, lastFetchTime, clock, requestVars, fnVars>>

\* The caller takes the result; it can call again.
CallReturns(c) ==
  /\ calls[c].pc = "returned"
  /\ calls' = [calls EXCEPT ![c] = IdleCall]
  /\ UNCHANGED <<source, cachedPlans, lastFetchTime, clock, requestVars, fnVars>>

\* Time passes.
Tick ==
  /\ \E t \in Times : t > clock /\ clock' = t
  /\ UNCHANGED <<source, cachedPlans, lastFetchTime, calls, requestVars, fnVars>>

\* The server publishes another catalog.
Publish ==
  /\ \E catalog \in CacheCatalogs : catalog # source /\ source' = catalog
  /\ UNCHANGED <<cachedPlans, timeVars, requestVars, fnVars>>

NextCache ==
  \/ \E c \in Callers : CallGetPlansData(c)
  \/ \E c \in Callers : FetchSettles(c)
  \/ \E c \in Callers : RetryFetch(c)
  \/ \E c \in Callers : CallReturns(c)
  \/ Tick
  \/ Publish

SpecCache == InitCache /\ [][NextCache]_vars

(***************************************************************************)
(* Properties of the filter functions, checked under SpecFn.               *)
(***************************************************************************)
\* The price a budget is compared with: a string price with every character
\* that is not a digit removed, read as an integer.
parsedPrice(p) ==
  IF IsStr(p.price) THEN parseInt(StripNonDigits(p.price.s)) ELSE p.price

Min(a, b) == IF a <= b THEN a ELSE b

\* C1: filterPlansByConstraints returns exactly the plans of its input, in
\* input order, for which (the target duration is null or the parsed
\* validity equals it) and (the budget is null or the parsed price is at
\* most the budget); a plan whose validity cannot be parsed matches only
\* when no target duration is set.
C1_ConstraintsExact ==
  fnCall.fn = "filterPlansByConstraints" =>
    LET keeps(p) ==
          /\ \/ fnCall.targetDuration = Null
             \/ parseValidity(p.validity) = fnCall.targetDuration
          /\ \/ fnCall.budget = Null
             \/ IsNum(parsedPrice(p)) /\ parsedPrice(p).n <= fnCall.budget.n
    IN  fnCall.result = SelectSeq(fnPlans, keeps)

\* A budget of 400 and no target duration: the plan of 555 is dropped, the
\* bill-cycle plan and the plan priced with a currency symbol are kept.
C1_Witness ==
  /\ fnCall.fn = "filterPlansByConstraints"
  /\ fnCall.targetDuration = Null
  /\ fnCall.budget = Num(400)
  /\ fnPlans = <<Plan555, PlanPostpaid, Plan399>>
  /\ fnCall.result = <<PlanPostpaid, Plan399>>

\* C2: findSimilarPlans never returns more than maxResults plans (3 when
\* maxResults is not given), every returned plan has a parseable validity,
\* and with a budget set no returned plan costs more than the budget.
C2_SimilarBounded ==
  fnCall.fn = "findSimilarPlans" =>
    LET limit == IF fnCall.maxResults = Undef THEN 3 ELSE fnCall.maxResults.n
        result == fnCall.result
    IN  /\ Len(result) <= limit
        /\ \A i \in 1..Len(result) :
             /\ parseValidity(result[i].validity) # Null
             /\ fnCall.budget # Null =>
                  ~(parsedPrice(result[i]).n > fnCall.budget.n)

\* Four plans within a budget of 600, all with a validity in days, and no
\* maxResults: the three nearest to 28 days are returned.
C2_Witness ==
  /\ fnCall.fn = "findSimilarPlans"
  /\ fnCall.maxResults = Undef
  /\ fnCall.budget = Num(600)
  /\ fnCall.targetDuration = Num(28)
  /\ fnPlans = <<Plan555, Plan149, Plan179, Plan99>>
  /\ fnCall.result = <<Plan149, Plan99, Plan179>>

\* C3: findSimilarPlans returns the plans within budget (by parsed price)
\* that have a parseable validity, ordered by non-decreasing distance of the
\* validity from the target duration, plans at equal distance in their
\* input order, cut to the first maxResults; the first plan returned is at
\* minimum distance.
C3_SimilarRanked ==
  fnCall.fn = "findSimilarPlans" =>
    LET admissible(p) ==
          /\ parseValidity(p.validity) # Null
          /\ \/ fnCall.budget = Null
             \/ IsNum(parsedPrice(p)) /\ parsedPrice(p).n <= fnCall.budget.n
        adm == SelectSeq(fnPlans, admissible)
        d(p) == Abs(parseValidity(p.validity).n - fnCall.targetDuration.n)
        pos(p) == CHOOSE i \in 1..Len(adm) : adm[i] = p
        before(p, q) == d(p) < d(q) \/ (d(p) = d(q) /\ pos(p) < pos(q))
        limit == IF fnCall.maxResults = Undef THEN 3 ELSE fnCall.maxResults.n
        r == fnCall.result
    IN  /\ Len(r) = Min(limit, Len(adm))
        /\ \A i \in 1..Len(r) : \E j \in 1..Len(adm) : adm[j] = r[i]
        /\ \A i, j \in 1..Len(r) : i < j => before(r[i], r[j])
        /\ \A j \in 1..Len(adm) :
             (\A i \in 1..Len(r) : r[i] # adm[j]) =>
               \A i \in 1..Len(r) : before(r[i], adm[j])
        /\ r # <<>> => \A j \in 1..Len(adm) : d(r[1]) <= d(adm[j])

InSeq(x, seq) == \E k \in 1..Len(seq) : seq[k] = x

\* C5: when the query is voice-only and the voice-only predicate matches no
\* plan, the voice-only stage hands the unfiltered plans to the next stage;
\* when it matches some plan, exactly the matching plans are handed on.
C5_VoiceOnlyStage ==
  [][(pc = "voiceOnly" /\ ctx.isVoiceOnly) =>
       /\ pc' = "dailyData"
       /\ plans' = IF filterVoiceOnlyPlans(plans) = <<>>
                   THEN plans
                   ELSE filterVoiceOnlyPlans(plans)]_vars

\* A voice-only query on a catalog without a voice-only plan: the stage is
\* over and the plans handed on are not empty and hold no voice-only plan.
C5_Witness ==
  /\ pc = "dailyData"
  /\ ctx.isVoiceOnly
  /\ stages[Len(stages)] = "voiceOnly"
  /\ plans # <<>>
  /\ filterVoiceOnlyPlans(plans) = <<>>

\* C6: a request that reaches the handler with a query text containing a
\* trigger of the conversational table is answered with one of the replies
\* of the first such trigger in table order, and no extraction, catalog
\* fetch or filter stage runs for it; a request whose text contains no
\* trigger is never answered with a reply of the table.
C6_Conversational ==
  (pc = "done" /\ Truthy(body.queryResult)) =>
    LET q == trim(toLowerCase(body.queryResult.queryText.s))
        matches(k) == includes(q, CONVERSATIONAL_RESPONSES[k].trigger)
        canned == UNION {CONVERSATIONAL_RESPONSES[k].responses :
                           k \in DOMAIN CONVERSATIONAL_RESPONSES}
    IN  IF \E k \in DOMAIN CONVERSATIONAL_RESPONSES : matches(k)
        THEN err = NoErr =>
               /\ \E k \in DOMAIN CONVERSATIONAL_RESPONSES :
                    /\ matches(k)
                    /\ \A j \in 1..(k - 1) : ~matches(j)
                    /\ res.fulfillmentText \in CONVERSATIONAL_RESPONSES[k].responses
               /\ stages = <<"conversational">>
               /\ ctx = NoCtx
               /\ plans = <<>>
               /\ filtered = <<>>
        ELSE res.fulfillmentText \notin canned

\* The text contains the triggers hey and how are you: the reply is one of
\* hey, the earlier of the two in the table.
C6_Witness ==
  /\ pc = "done"
  /\ body.queryResult # Undef
  /\ body.queryResult.queryText = Str("Hey, how are you")
  /\ res = [status |-> 200, fulfillmentText |-> "Hey! How can I help?"]
  /\ stages = <<"conversational">>

Composed == pc = "done" /\ InSeq("compose", stages)

\* The similarity fallback ran exactly when a target duration was set, the
\* filtered result was empty, there were candidate plans and neither the
\* feature stage nor the international stage ended the request.
FallbackExactly ==
  (pc = "done" /\ InSeq("constraints", stages)) =>
    (InSeq("findSimilarPlans", stages)
       <=> /\ Truthy(ctx.targetDuration)
           /\ filtered = <<>>
           /\ plans # <<>>
           /\ InSeq("compose", stages))

\* A target of 56 days, no plan of 56 days among the candidates.
No56DayPlan ==
  /\ Composed
  /\ ctx.targetDuration = Num(56)
  /\ \A i \in 1..Len(plans) : parseValidity(plans[i].validity) # Num(56)

BudgetOrDurationGiven ==
  /\ Truthy(body.queryResult)
  /\ body.queryResult.parameters.operator = Undef
  /\ body.queryResult.parameters.plan_type = Undef
  /\ \/ body.queryResult.parameters.budget # Undef
     \/ body.queryResult.parameters.duration # Undef
  /\ \A v \in {body.queryResult.parameters.budget,
               body.queryResult.parameters.duration} :
       v = Undef \/ IsNum(v) \/ IsStr(v) \/ v.t = "obj"

\* C9: a request whose budget or duration parameter is a number, a string
\* or an {amount, unit} object is never rejected by validation; it reaches
\* the handler.
C9_ParametersAccepted ==
  (pc \in {"errorHandler", "done"} /\ BudgetOrDurationGiven) =>
    err.name # "ValidationError"

\* C10: a request whose resolved operator is not jio, airtel or vi is not
\* failed: the operator becomes null, the plans of all operators are
\* searched, and the reply carries the note on the requested operator.
C10_UnsupportedOperator ==
  (pc = "done" /\ Truthy(body.queryResult)) =>
    LET queryText == toLowerCase(body.queryResult.queryText.s)
        resolved == operatorOf(body.queryResult.parameters, queryText)
        conversational ==
          \E k \in DOMAIN CONVERSATIONAL_RESPONSES :
            includes(trim(queryText), CONVERSATIONAL_RESPONSES[k].trigger)
    IN  (resolved.missingOperatorMessage # "" /\ ~conversational) =>
          /\ err.name # "ValidationError"
          /\ res.status = 200 =>
               /\ ctx.operator = Null
               /\ InSeq("getPlansForOperator", stages)
               /\ includes(res.fulfillmentText, resolved.missingOperatorMessage)

(***************************************************************************)
(* The order of the filter stages.                                         *)
(***************************************************************************)
\* The steps of a request that reached the catalog, in the order of the
\* handler.
StageOrder ==
  <<"extract", "getPlansForOperator", "voiceOnly", "dailyData", "constraints",
    "features", "international", "compose", "findSimilarPlans">>

IsPrefix(a, b) == Len(a) <= Len(b) /\ SubSeq(b, 1, Len(a)) = a

LastStage == IF stages = <<>> THEN "" ELSE stages[Len(stages)]

\* What each stage has to hand on when it consumes the result of the stage
\* before it, starting from the plans of the catalog for the request.
AfterVoiceOnly ==
  LET found == getPlansForOperator(source, ctx.operator, ctx.planType)
      all == IF found.ok THEN found.value ELSE <<>>
  IN  IF ctx.isVoiceOnly /\ filterVoiceOnlyPlans(all) # <<>>
      THEN filterVoiceOnlyPlans(all) ELSE all
AfterDailyData ==
  IF Truthy(ctx.minDailyData)
  THEN filterByDailyData(AfterVoiceOnly, ctx.minDailyData) ELSE AfterVoiceOnly
AfterConstraints ==
  filterPlansByConstraints(AfterDailyData, ctx.targetDuration, ctx.budget)
AfterFeatures ==
  IF ctx.requestedFeatures # <<>>
  THEN filterPlansByFeatures(AfterConstraints, ctx.requestedFeatures)
  ELSE AfterConstraints
InternationalAsked ==
  includes(ctx.queryText, "international") \/ includes(ctx.queryText, "roaming")
AfterInternational ==
  IF InternationalAsked THEN filterInternationalPlans(AfterFeatures) ELSE AfterFeatures

C13_MonthPhrases ==
  /\ fnCall.fn = "extractDurationFromQuery" =>
       LET t == fnText.s
           one == includes(t, "1 month") \/ includes(t, "one month")
                    \/ includes(t, "a month")
           two == includes(t, "2 month") \/ includes(t, "two month")
           three == includes(t, "3 month") \/ includes(t, "three month")
       IN  /\ (one /\ ~two /\ ~three) => fnCall.result = Num(28)
           /\ (two /\ ~one /\ ~three) => fnCall.result = Num(56)
           /\ (three /\ ~one /\ ~two) => fnCall.result = Num(84)
  /\ fnCall.fn = "parseValidity" =>
       /\ fnText = Str("28 days") => fnCall.result = Num(28)
       /\ \A n \in 1..3 :
            fnText \in {Str(natToString(n) \o " month"),
                        Str(natToString(n) \o " months")}
              => fnCall.result = Num(30 * n)

\* '1 month' handed to the extractor of the query duration: 28 days.
C13_Witness ==
  /\ fnCall.fn = "extractDurationFromQuery"
  /\ fnText = Str("1 month")
  /\ fnCall.result = Num(28)

\* The word w stands in the text t, between blanks or the ends of the text.
WordIn(t, w) ==
  \E i \in 0..(Len(t) - Len(w)) :
    /\ substring(t, i + 1, i + Len(w)) = w
    /\ i = 0 \/ Ch(t, i) = " "
    /\ i + Len(w) = Len(t) \/ Ch(t, i + Len(w) + 1) = " "

\* The operator a text names: one of the supported names or misspellings
\* as a word of the text, null when there is none.
NamedOperator(t) ==
  IF WordIn(t, "jio") \/ WordIn(t, "geo") THEN Str("jio")
  ELSE IF WordIn(t, "airtel") \/ WordIn(t, "artel") THEN Str("airtel")
  ELSE IF WordIn(t, "vi") \/ WordIn(t, "vodafone") \/ WordIn(t, "vodaphone")
            \/ WordIn(t, "idea") THEN Str("vi")
  ELSE Null

\* C14: correctOperatorName gives the canonical operator of the name or
\* misspelling its input holds, alone or inside a text (jio for jio/geo,
\* airtel for airtel/artel, vi for vi/vodafone/vodaphone/idea), and null for
\* an input that names no operator.
C14_OperatorCorrected ==
  fnCall.fn = "correctOperatorName" =>
    fnCall.result = IF IsStr(fnText) THEN NamedOperator(toLowerCase(fnText.s))
                    ELSE Null

\* C15: generateConversationalResponse returns null for an empty or null
\* query and for a query without a trigger, and generateResponse returns a
\* non-empty string when plans and filteredPlans are null or empty and the
\* query text is empty; neither raises.
C15_GeneratorTotal ==
  /\ fnCall.fn = "generateConversationalResponse" =>
       /\ fnCall.result.ok
       /\ (~IsStr(fnText) \/ firstTrigger(trim(toLowerCase(fnText.s))) = 0) =>
            fnCall.result.value = Null
  /\ (/\ fnCall.fn = "generateResponse"
      /\ fnCall.params.plans \in {Null, Arr(<<>>)}
      /\ fnCall.params.filteredPlans \in {Null, Arr(<<>>)}
      /\ fnCall.params.queryText = Str("")) =>
       /\ fnCall.result.ok
       /\ IsStr(fnCall.result.value)
       /\ fnCall.result.value.s # ""

\* C16: a plan-list reply shows the first min(8, |filtered|) plans of the
\* filtered list in list order and no later plan, and it carries the note
\* 'Showing 8 out of M available plans' exactly when the filtered list has
\* more than 8 plans, M being the length of the filtered list.
C16_FirstEightShown ==
  (Composed /\ filtered # <<>>) =>
    LET shown == IF Len(filtered) < 8 THEN Len(filtered) ELSE 8
        text == res.fulfillmentText
    IN  /\ includes(text, ":\n\n" \o planLines(SubSeq(filtered, 1, shown),
                                               ctx.operator, ctx.planType))
        /\ \A i \in (shown + 1)..Len(filtered) :
             ~includes(text, planLine(filtered[i], ctx.operator, ctx.planType))
        /\ includes(text, "(Showing ") <=> Len(filtered) > 8
        /\ Len(filtered) > 8 =>
             includes(text, "\n\n(Showing 8 out of " \o natToString(Len(filtered))
                              \o " available plans)")

C16_Witness ==
  /\ Composed
  /\ Len(filtered) = 10
  /\ includes(res.fulfillmentText, "(Showing 8 out of 10 available plans)")
  /\ ~includes(res.fulfillmentText, planLine(filtered[9], ctx.operator, ctx.planType))

\* A list of exactly eight plans, shown whole.
C16_ExactlyEight == Composed /\ Len(filtered) = 8

\* C17: when the voice-only stage matches no plan and the original plans
\* are kept, the reply does not list plans that fail the voice-only
\* predicate under a VOICE-ONLY plans header.
C17_FallbackNotVoiceOnly ==
  (/\ Composed
   /\ ctx.isVoiceOnly
   /\ filtered # <<>>
   /\ \E i \in 1..Len(slice0(filtered, MAX_PLANS_TO_SHOW)) :
        filterVoiceOnlyPlans(<<filtered[i]>>) = <<>>)
    => ~includes(res.fulfillmentText, "VOICE-ONLY plans")

\* C18: every plan returned by filterVoiceOnlyPlans has no data allowance:
\* its data field denotes zero or no data; a plan with a positive data
\* amount such as '10GB' is never returned, whatever its benefits.
C18_VoiceOnlyHasNoData ==
  fnCall.fn = "filterVoiceOnlyPlans" =>
    \A i \in 1..Len(fnCall.result) :
      ~Truthy(parseDataAllowance(fnCall.result[i].data))

\* A plan field that is null or missing.
Missing(v) == v \in {Null, Undef}

\* C20: a plan with a null or missing price, data, validity or benefits
\* field does not match the predicate of a filter that reads the field: it
\* is not admitted by a budget, by a target duration, by the similarity
\* fallback, by the daily data minimum or by the voice-only filter.
C20_MissingFieldNeverMatches ==
  \A i \in 1..(IF fnCall.fn = "none" THEN 0 ELSE Len(fnCall.result)) :
    LET plan == fnCall.result[i]
    IN  /\ (fnCall.fn \in {"filterPlansByConstraints", "findSimilarPlans"}
            /\ Truthy(fnCall.budget)) => ~Missing(plan.price)
        /\ (fnCall.fn = "filterPlansByConstraints"
            /\ Truthy(fnCall.targetDuration)) => ~Missing(plan.validity)
        /\ fnCall.fn = "findSimilarPlans" => ~Missing(plan.validity)
        /\ fnCall.fn = "filterByDailyData" => plan.data # ""
        /\ fnCall.fn = "filterVoiceOnlyPlans" =>
             (plan.data # "" /\ plan.benefits # "")

\* The plans with every string price stripped to its digits.
StrippedPrices(items) ==
  [i \in 1..Len(items) |-> [items[i] EXCEPT !.price = planPrice(items[i])]]

\* C19: a string price has its non-numeric characters stripped wherever it
\* is compared: the cheapest-price figure of the budget-exceeded reply is
\* the minimum of the stripped prices, and the similarity fallback admits
\* the plans that the duration/budget filter counts as within the budget.
C19_PriceStrippedEverywhere ==
  Composed =>
    /\ includes(res.fulfillmentText, "The cheapest available plan is ₹") =>
         includes(res.fulfillmentText,
                  "The cheapest available plan is ₹"
                    \o toString(minPrice(StrippedPrices(plans))) \o ".")
    /\ (InSeq("findSimilarPlans", stages) /\ Truthy(ctx.budget)) =>
         StrippedPrices(similarPlans)
           = findSimilarPlans(StrippedPrices(plans), ctx.targetDuration,
                              ctx.budget, Undef)

\* C21: when the filtered list and the alternatives are both empty and both
\* a budget and a target duration are set (no feature or international
\* request ended the request), the reply is the budget-exceeded reply that
\* reports the cheapest price, not the duration-unavailable reply.
C21_BudgetBeforeDuration ==
  (/\ Composed
   /\ filtered = <<>>
   /\ plans # <<>>
   /\ Truthy(ctx.budget)
   /\ Truthy(ctx.targetDuration)
   /\ findSimilarPlans(plans, ctx.targetDuration, ctx.budget, Undef) = <<>>)
    => /\ includes(res.fulfillmentText, "The cheapest available plan is ₹")
       /\ ~includes(res.fulfillmentText, "days validity")

\* C22: for every query text answered by the webhook the sort preference is
\* 'price' if the text contains 'cheapest', otherwise 'value' if it
\* contains 'best', 'highest' or 'most', otherwise null; a query containing
\* 'highest' and not 'cheapest' is handled with sort mode 'value'.
C22_SortPreference ==
  (pc = "done" /\ res.status = 200) =>
    LET queryText == toLowerCase(body.queryResult.queryText.s)
    IN  /\ ctx.sortBy = sortByOf(queryText)
        /\ (includes(queryText, "highest") /\ ~includes(queryText, "cheapest")) =>
             (InSeq("extract", stages) /\ ctx.sortBy = Str("value"))

\* C23: the requested-feature list of a request never holds the same
\* keyword twice; a query with the phrase 'international roaming' gives one
\* 'international roaming' entry, in the feature filter and in the reply.
C23_FeaturesOnce ==
  InSeq("features", stages) =>
    /\ \A i, j \in 1..Len(ctx.requestedFeatures) :
         i # j => ctx.requestedFeatures[i] # ctx.requestedFeatures[j]
    /\ pc = "done" =>
         ~includes(res.fulfillmentText,
                   "international roaming and international roaming")

\* The keywords of the international stage as the claim lists them, and as
\* the filter has them.
KeywordsClaimed == {"international roaming", "iro", "international call", "global roaming"}
KeywordsFiltered == {"international roaming", "iro", "international pack", "global roaming"}

PassesWith(keywords, plan) ==
  \E k \in keywords :
    includes(toLowerCase(JoinTruthy(<<plan.benefits, plan.additional_benefits,
                                      plan.description, plan.name>>)), k)

\* The international stage applied when asked, keeping the plans that hold
\* one of the keywords; an empty result ends the request with the reply on
\* international roaming plans.
InternationalStageAs(asked, keywords) ==
  InSeq("international", stages) =>
    LET expected == IF asked
                    THEN SelectSeq(AfterFeatures, LAMBDA plan : PassesWith(keywords, plan))
                    ELSE AfterFeatures
    IN  /\ filtered = expected
        /\ (asked /\ expected = <<>>) <=> (pc = "done" /\ LastStage = "international")
        /\ (pc = "done" /\ LastStage = "international") =>
             res = [status |-> 200,
                    fulfillmentText |->
                      "No " \o (IF Truthy(ctx.operator)
                                THEN toUpperCase(ctx.operator.s) \o " " ELSE "")
                        \o "international roaming plans found. Please check the operator's website or customer care for international roaming activation and rates."]

\* C24 as stated: the international stage is applied exactly when the query
\* text contains 'international'; a plan passes iff its combined text
\* contains 'international roaming', 'iro', 'international call' or 'global
\* roaming'; an empty result ends the request with the dedicated reply.
C24_InternationalOnly ==
  InternationalStageAs(includes(ctx.queryText, "international"), KeywordsClaimed)

\* C24, amended: the international stage is applied exactly when the query
\* text contains 'international' or 'roaming'; a plan passes iff its
\* combined text contains 'international roaming', 'iro', 'international
\* pack' or 'global roaming'; an empty result ends the request with the
\* dedicated reply.
C24_InternationalOrRoaming ==
  InternationalStageAs(includes(ctx.queryText, "international")
                         \/ includes(ctx.queryText, "roaming"),
                       KeywordsFiltered)

\* 'roaming plans': the stage keeps the plan with the international pack
\* and drops the plan with international calls.
C24_Witness ==
  /\ Composed
  /\ ctx.queryText = "roaming plans"
  /\ Len(AfterFeatures) = 3
  /\ Len(filtered) = 1
  /\ filtered[1].name = "575 Plan"

\* C25: a duration found in the query text is used and params.duration is
\* consulted only when the text yields none; a present params.operator,
\* after spelling correction, is used and the text is not scanned for an
\* operator; params.budget is used when present and the text patterns are
\* scanned only when it is absent.
C25_SourcePriority ==
  InSeq("extract", stages) =>
    LET q == ctx.queryText
        p == ctx.params
        fromText == extractDurationFromQuery(q)
        given == Str(toLowerCase(p.operator.s))
        corrected == correctOperatorName(given)
        used == IF Truthy(corrected) THEN corrected ELSE given
    IN  /\ Truthy(fromText) => ctx.targetDuration = fromText
        /\ (~Truthy(fromText) /\ IsNum(p.duration)) => ctx.targetDuration = p.duration
        /\ (~Truthy(fromText) /\ IsStr(p.duration)) =>
             ctx.targetDuration = parseInt(p.duration.s)
        /\ (~Truthy(fromText) /\ p.duration = Undef) => ~Truthy(ctx.targetDuration)
        /\ IsNum(p.budget) => ctx.budget = p.budget
        /\ IsStr(p.budget) => ctx.budget = parseInt(p.budget.s)
        /\ p.budget = Undef => ctx.budget = extractBudgetFromQuery(q)
        /\ (IsStr(p.operator) /\ p.operator.s # "") =>
             ctx.operator = IF used.s \in AVAILABLE_OPERATORS THEN used ELSE Null
        /\ p.operator = Undef =>
             \/ ctx.operator = extractOperatorFromQuery(q)
             \/ /\ ctx.operator = Null
                /\ Truthy(extractOperatorFromQuery(q))
                /\ extractOperatorFromQuery(q).s \notin AVAILABLE_OPERATORS

\* The text says 28 days and the parameter 56: 28 is used; the budget
\* parameter '400' is used.
C25_Witness ==
  /\ InSeq("extract", stages)
  /\ extractDurationFromQuery(ctx.queryText) = Num(28)
  /\ ctx.params.duration = Num(56)
  /\ ctx.targetDuration = Num(28)
  /\ ctx.params.budget = Str("400")
  /\ ctx.budget = Num(400)

\* The data amount in GB of a data field of the model, as the claim reads
\* it: infinite, N for 'N GB', N/1024 for 'N MB', none otherwise.
ClaimedAmount(data) ==
  CASE data = "Unlimited" -> Infinity
    [] data = "2048MB" -> Frac(2048, 1024)
    [] data \in {"", "No data"} -> Null
    [] OTHER -> Frac(parseInt(data).n, 1)

ClaimedDailyKeep(plan, min) ==
  LET amount == ClaimedAmount(plan.data)
      parsed == parseValidity(plan.validity)
      days == IF IsNum(parsed) /\ parsed.n > 0 THEN parsed.n ELSE 1
  IN  /\ amount # Null
      /\ \/ amount = Infinity
         \/ /\ amount.num > 0
            /\ amount.num * min.den >= min.num * amount.den * days

\* C26: filterByDailyData keeps exactly the plans whose data amount parses
\* to a positive quantity and whose daily rate, the amount divided by the
\* validity in days (1 day when the validity is unparseable), is at least
\* the minimum; unparseable data is excluded and unlimited always passes.
C26_DailyDataExact ==
  fnCall.fn = "filterByDailyData" =>
    fnCall.result
      = SelectSeq(fnPlans, LAMBDA plan : ClaimedDailyKeep(plan, fnCall.minDailyData))

\* 56GB over 28 days passes a minimum of 1.5 GB a day, 2GB over 28 days
\* does not.
C26_Witness ==
  /\ fnCall.fn = "filterByDailyData"
  /\ fnCall.minDailyData = Frac(3, 2)
  /\ fnPlans = <<Plan149, Plan56GB>>
  /\ fnCall.result = <<Plan56GB>>

\* The plans of the arrays at nesting depths lo..hi below a node, in source
\* order; the node itself is at depth 0.
RECURSIVE ArraysAtDepth(_, _, _, _)
ArraysAtDepth(node, depth, lo, hi) ==
  IF node = Undef \/ depth > hi THEN <<>>
  ELSE IF node.t = "array"
    THEN IF depth >= lo THEN node.items ELSE <<>>
  ELSE IF node.t = "object"
    THEN Concat([i \in 1..Len(node.values) |->
                   ArraysAtDepth(node.values[i], depth + 1, lo, hi)])
  ELSE <<>>

\* The plans of every operator in catalog order, each paired with the key
\* of its operator.
PlansByOperator(planType) ==
  LET all == source.telecom_providers
  IN  Concat([k \in 1..Len(all) |->
                LET found == IF planType = "prepaid"
                             THEN ArraysAtDepth(all[k].prepaid, 0, 1, 2)
                             ELSE ArraysAtDepth(all[k].postpaid, 0, 0, 3)
                IN  [i \in 1..Len(found) |-> [key |-> all[k].key, plan |-> found[i]]]])

\* C27: with no operator, getPlansForOperator returns, operator by operator
\* in catalog order, each operator's flattened plans - prepaid: the arrays
\* that are categories or one level below a category; postpaid: the array
\* itself or the arrays at nesting levels 1 to 3 - each plan unchanged but
\* for the provider of its operator, none dropped or duplicated.
C27_AllOperatorsConcatenated ==
  (fnCall.fn = "getPlansForOperator" /\ fnCall.operator = Null) =>
    LET expected == PlansByOperator(fnCall.planType)
    IN  IF expected = <<>>
        THEN ~fnCall.result.ok /\ fnCall.result.error.name = "PlanNotFoundError"
        ELSE /\ fnCall.result.ok
             /\ Len(fnCall.result.value) = Len(expected)
             /\ \A i \in 1..Len(expected) :
                  LET got == fnCall.result.value[i]
                  IN  /\ got.provider = expected[i].key
                      /\ DOMAIN got = DOMAIN expected[i].plan \cup {"provider"}
                      /\ \A f \in DOMAIN expected[i].plan : got[f] = expected[i].plan[f]

\* Both operators with prepaid plans one level below a category and
\* directly in one: four plans, jio's before airtel's, the plan without a
\* price among them.
C27_Witness ==
  /\ fnCall.fn = "getPlansForOperator"
  /\ fnCall.operator = Null
  /\ fnCall.planType = "prepaid"
  /\ source.telecom_providers[1].prepaid
       = ObjectNode(<<ObjectNode(<<ArrayNode(<<Plan149>>)>>), ArrayNode(<<PlanNullPrice>>)>>)
  /\ fnCall.result.ok
  /\ Len(fnCall.result.value) = 4
  /\ [i \in 1..4 |-> fnCall.result.value[i].provider] = <<"jio", "jio", "airtel", "airtel">>
  /\ fnCall.result.value[2].price = Null

C29_CheapestFirstOrdered ==
  (/\ Composed
   /\ filtered # <<>>
   /\ includes(res.fulfillmentText, " (cheapest first):"))
    => LET plansToShow == slice0(filtered, MAX_PLANS_TO_SHOW)
       IN  \A i, j \in 1..Len(plansToShow) :
             (i < j /\ IsNum(planPrice(plansToShow[i])) /\ IsNum(planPrice(plansToShow[j])))
               => planPrice(plansToShow[i]).n <= planPrice(plansToShow[j]).n

\* C30: under any interleaving of overlapping getPlansData calls the
\* cache's lastFetchTime never decreases; as lastFetchTime is the time at
\* which the call whose result is stored began, the cached catalog is then
\* never replaced by the result of a call that began earlier than that one.
C30_CacheNeverGoesBack == [][lastFetchTime' >= lastFetchTime]_vars


====
